---- MODULE Spec2Model ----
(***************************************************************************)
(* Response generation of the Gemini Advanced Chat UI.                     *)
(*                                                                         *)
(*   - the context window manager of services/geminiService.ts             *)
(*     (estimateTokens, manageContextWindow)          -> SpecWindow        *)
(*   - one generation call, consumed fragment by fragment by the chat      *)
(*     window: services/aiProviderService.ts (generateResponse,            *)
(*     generateGeminiResponse, generateOpenAIResponse, performWebSearch),  *)
(*     services/geminiService.ts (generateResponseStream) and the          *)
(*     handleSend callbacks of the two ChatWindow components               *)
(*                                                     -> SpecGen          *)
(*   - the chat window's event handlers, their render closures and the     *)
(*     debounced save of the session (components/Login.tsx,                *)
(*     hooks/useChatHistory.ts)                        -> SpecChat         *)
(*   - the login codes and session tokens of the auth server               *)
(*     (server/index.js: request-code, verify-code, verify-session)        *)
(*                                                     -> SpecAuth         *)
(*   - export and import of a session as a JSON file (App:                 *)
(*     handleExportChat, handleImportChat)             -> SpecIo           *)
(*   - the list of sessions: App's handlers over the callbacks of          *)
(*     hooks/useChatHistory.ts                         -> SpecStore        *)
(*                                                                         *)
(* Text is a sequence of characters; long literal strings of the source    *)
(* are one token each (for example "DATE" for the date context line).      *)
(***************************************************************************)
EXTENDS Integers, Sequences, FiniteSets, TLC

\* ------------------------------------------------------------------ bounds
\* longest history handed to manageContextWindow
MaxHist == 3
\* longest message content (characters) in the window model
MaxContentLen == 5
\* largest token budget tried in the window model
MaxBudget == 4
\* characters of the long document a stored session can hold
DocLength == 120001

\* ------------------------------------------------------------- variables
VARIABLES
  wHistory,      \* manageContextWindow: argument history
  wMaxTokens,    \* manageContextWindow: argument maxTokens
  wResult,       \* manageContextWindow: returned contextHistory
  wCalled,       \* TRUE once manageContextWindow has returned
  build,         \* which ChatWindow is mounted: "legacy" (geminiService) or "multi" (aiProviderService)
  selectedModel,         \* geminiService.ts: let selectedModel
  currentModelConfig,    \* aiProviderService.ts: let currentModelConfig
  searchProviderConfigs, \* localStorage[SEARCH_PROVIDERS_KEY]
  messages,      \* ChatWindow: useState messages
  isStreaming,   \* ChatWindow: useState isStreaming
  pc,            \* where the generation call is suspended
  call,          \* locals of the generator that is running
  yielded,       \* fragments the generator has yielded, in order
  produced,      \* text deltas the backend streams have produced, concatenated
  chunks,        \* chunks the backend has delivered during this call
  backendLog,    \* requests sent to the provider backend during this call
  searchLog,     \* queries handed to performWebSearch during this call
  raised,        \* the error the generator threw to handleSend, or NoError
  rendered,      \* ChatWindow: the state and props its handlers closed over at the last render
  loops,         \* the for await loops of handleSend / handleRetry that are running
  sends,         \* submit and retry events handled so far
  stored,        \* the active session in useChatHistory's sessions and in localStorage
  parentUpdate,  \* App has new sessions to render with: "none", "callbacks" or "messages"
  pendingUpdateRef,      \* ChatWindow: pendingUpdateRef.current, <<>> for null
  isStreamingUpdateRef,  \* ChatWindow: isStreamingUpdateRef.current
  updateTimeoutRef,      \* ChatWindow: the debounced onMessagesUpdate call, <<>> for none
  titlePending,  \* handleSend: the generateTitle promise and its onTitleUpdate, <<>> for none
  loginCodes,    \* server/index.js: const loginCodes, a Map from email to {code, expiresAt, attempts}
  now,           \* server/index.js: what Date.now() returns
  mailJobs,      \* request-code handlers suspended at an await: [email, stage]
  response,      \* the last response the auth server sent
  handled,       \* responses the auth server has sent so far
  failedAttempts,    \* per email: 401 responses since the stored code was issued
  evaluatedAttempts, \* per email: comparisons with the stored code since it was issued
  issuedTokens,  \* session tokens verify-code has sent in a response
  ioSession,     \* App: activeSession, as handleExportChat and handleImportChat read it
  file,          \* the parsed content of the JSON file in the import dialog, NoFile for none
  fileOrigin,    \* where that file came from: "none", "export" or "foreign"
  exportedFrom,  \* the messages of the session the file was exported from, <<>> for none
  imported,      \* what the last handleImportChat did: "none", "ok", "invalid", "empty", "cancelled"
  sessions,        \* useChatHistory: useState sessions, newest first
  storedSessions,  \* localStorage[STORAGE_KEY], parsed
  activeSessionId, \* App: useState activeSessionId, NoId for null
  appRendered,     \* App: the sessions and activeSessionId its callbacks closed over at the last render
  effectPending,   \* App: the effect on [sessions, activeSessionId] has still to run for the last render
  storeClock,      \* what Date.now() returned to the last session created
  storeEvents,     \* user events and ChatWindow callbacks App has handled so far
  storeOp,         \* the last step of the store: "none", "render", "effect", "new", "delete", "rename", "update", "request", "title"
  deletedIds,      \* the session ids handleDeleteChat has deleted
  titleJobs,       \* generateTitle promises that have still to settle: [sessionId, sessions]
  appBuild         \* which App is mounted: "App.tsx" or "part_006"

windowVars == <<wHistory, wMaxTokens, wResult, wCalled>>

genVars == <<build, selectedModel, currentModelConfig, searchProviderConfigs, messages,
             isStreaming, pc, call, yielded, produced, chunks, backendLog, searchLog, raised>>

chatVars == <<rendered, loops, sends, stored, parentUpdate, pendingUpdateRef,
              isStreamingUpdateRef, updateTimeoutRef, titlePending>>

authVars == <<loginCodes, now, mailJobs, response, handled, failedAttempts, evaluatedAttempts,
              issuedTokens>>

ioVars == <<ioSession, file, fileOrigin, exportedFrom, imported>>

\* the variables of the models that no generation, chat or auth step touches
storeVars == <<sessions, storedSessions, activeSessionId, appRendered, effectPending,
               storeClock, storeEvents, storeOp, deletedIds, titleJobs, appBuild>>

restVars == <<ioVars, storeVars>>

vars == <<wHistory, wMaxTokens, wResult, wCalled, build, selectedModel, currentModelConfig,
          searchProviderConfigs, messages, isStreaming, pc, call, yielded, produced, chunks,
          backendLog, searchLog, raised, rendered, loops, sends, stored, parentUpdate,
          pendingUpdateRef, isStreamingUpdateRef, updateTimeoutRef, titlePending,
          loginCodes, now, mailJobs, response, handled, failedAttempts, evaluatedAttempts,
          issuedTokens, ioSession, file, fileOrigin, exportedFrom, imported,
          sessions, storedSessions, activeSessionId, appRendered, effectPending,
          storeClock, storeEvents, storeOp, deletedIds, titleJobs, appBuild>>

\* ------------------------------------------------------------ text helpers
RECURSIVE Rep(_, _)
\* the text made of n copies of character c
Rep(c, n) == IF n = 0 THEN <<>> ELSE <<c>> \o Rep(c, n - 1)

\* the roles of types.ts
Role == [USER |-> "user", ASSISTANT |-> "assistant", SYSTEM |-> "system"]

\* Message of types.ts, without the optional sources
Msg(role, content) == [role |-> role, content |-> content]

\* a pasted document: one element of a text that stands for DocLength characters
Doc == "DOC"

\* content.length: every element of a text is one character, except Doc
RECURSIVE Length(_)
Length(text) ==
  IF text = <<>> THEN 0
  ELSE (IF Head(text) = Doc THEN DocLength ELSE 1) + Length(Tail(text))

\* =================================================== context window manager
\* Math.ceil(message.content.length / 4)
estimateTokens(message) == (Length(message.content) + 3) \div 4

RECURSIVE WindowLoop(_, _, _, _, _)
\* the for loop of manageContextWindow, i counting down from history.length
\* (1-based here); returns contextHistory when the loop ends or breaks
WindowLoop(history, maxTokens, i, totalTokens, contextHistory) ==
  IF i < 1 THEN contextHistory
  ELSE LET message == history[i]
           messageTokens == estimateTokens(message)
       IN IF totalTokens + messageTokens > maxTokens /\ Len(contextHistory) > 0
          THEN contextHistory
          ELSE WindowLoop(history, maxTokens, i - 1, totalTokens + messageTokens,
                          <<message>> \o contextHistory)

RECURSIVE WindowLoop_push(_, _, _, _, _)
\* the loop with push instead of unshift
WindowLoop_push(history, maxTokens, i, totalTokens, contextHistory) ==
  IF i < 1 THEN contextHistory
  ELSE LET message == history[i]
           messageTokens == estimateTokens(message)
       IN IF totalTokens + messageTokens > maxTokens /\ Len(contextHistory) > 0
          THEN contextHistory
          ELSE WindowLoop_push(history, maxTokens, i - 1, totalTokens + messageTokens,
                               contextHistory \o <<message>>)

RECURSIVE WindowLoop_lateBreak(_, _, _, _, _)
\* the loop testing the budget before the message's own tokens are counted
WindowLoop_lateBreak(history, maxTokens, i, totalTokens, contextHistory) ==
  IF i < 1 THEN contextHistory
  ELSE LET message == history[i]
           messageTokens == estimateTokens(message)
       IN IF totalTokens > maxTokens /\ Len(contextHistory) > 0
          THEN contextHistory
          ELSE WindowLoop_lateBreak(history, maxTokens, i - 1, totalTokens + messageTokens,
                                    <<message>> \o contextHistory)

RECURSIVE WindowLoop_skip(_, _, _, _, _)
\* the loop passing over a message that does not fit instead of breaking
WindowLoop_skip(history, maxTokens, i, totalTokens, contextHistory) ==
  IF i < 1 THEN contextHistory
  ELSE LET message == history[i]
           messageTokens == estimateTokens(message)
       IN IF totalTokens + messageTokens > maxTokens /\ Len(contextHistory) > 0
          THEN WindowLoop_skip(history, maxTokens, i - 1, totalTokens, contextHistory)
          ELSE WindowLoop_skip(history, maxTokens, i - 1, totalTokens + messageTokens,
                               <<message>> \o contextHistory)

manageContextWindow_skip(history, maxTokens) ==
  IF Len(history) = 0 THEN history
  ELSE WindowLoop_skip(history, maxTokens, Len(history), 0, <<>>)

manageContextWindow_push(history, maxTokens) ==
  IF Len(history) = 0 THEN history
  ELSE WindowLoop_push(history, maxTokens, Len(history), 0, <<>>)

manageContextWindow_lateBreak(history, maxTokens) ==
  IF Len(history) = 0 THEN history
  ELSE WindowLoop_lateBreak(history, maxTokens, Len(history), 0, <<>>)

manageContextWindow(history, maxTokens) ==
  IF Len(history) = 0 THEN history
  ELSE WindowLoop(history, maxTokens, Len(history), 0, <<>>)

\* ------------------------------------------------ the window model's inputs
WindowMessages ==
  { Msg(r, Rep("a", n)) : r \in {Role.USER, Role.ASSISTANT}, n \in 0..MaxContentLen }

RECURSIVE SeqsUpTo(_, _)
\* all sequences over S of length at most n
SeqsUpTo(S, n) ==
  IF n = 0 THEN { <<>> }
  ELSE LET shorter == SeqsUpTo(S, n - 1)
       IN shorter \cup { Append(s, x) : s \in { t \in shorter : Len(t) = n - 1 }, x \in S }

WindowHistories == SeqsUpTo(WindowMessages, MaxHist)

\* ======================================= generation call: data and inputs
\* the most chunks a backend delivers during one generation call
MaxChunks == 2

RECURSIVE Reverse(_)
Reverse(s) == IF s = <<>> THEN <<>> ELSE Append(Reverse(Tail(s)), Head(s))

IsWhitespace(c) == c = " "

RECURSIVE TrimStart(_)
TrimStart(t) == IF t # <<>> /\ IsWhitespace(Head(t)) THEN TrimStart(Tail(t)) ELSE t

\* String.prototype.trim
Trim(t) == Reverse(TrimStart(Reverse(TrimStart(t))))

\* String.prototype.endsWith
EndsWith(s, suffix) ==
  /\ Len(suffix) <= Len(s)
  /\ SubSeq(s, Len(s) - Len(suffix) + 1, Len(s)) = suffix

\* x || fallback on strings: the empty (or missing) string is falsy
OrElse(x, fallback) == IF x = "" THEN fallback ELSE x

\* ---- errors.  An Error is its message; of a message the model keeps a name
\* and the probed substrings it contains (every includes() of the source
\* probes one of these words).
NoError == [thrown |-> FALSE, name |-> "", words |-> {}]
Err(name, words) == [thrown |-> TRUE, name |-> name, words |-> words]

\* error.message.includes(word)
includes(error, word) == word \in error.words

\* messages a provider backend (or the network under it) can fail with
BackendErrors ==
  { Err("Failed to fetch", {}),
    Err("Error reading from the stream", {"stream"}),
    Err("models/x is not found", {"model", "not found"}),
    Err("429 rate limit reached", {"rate", "limit", "rate limit"}),
    Err("Quota exceeded", {"quota"}),
    Err("The caller does not have permission", {"permission"}),
    Err("googleSearchRetrieval is not supported", {"googleSearchRetrieval"}) }

\* new Error(`Request timeout after ${timeoutMs}ms`)
TimeoutError == Err("Request timeout after 30000ms", {"timeout"})

\* ---- models
AIProvider == [GEMINI |-> "gemini", OPENAI |-> "openai", CUSTOM |-> "custom"]

\* modelId.includes(word), for the words the source probes
ModelIncludes(modelId, word) ==
  CASE modelId = "gemini-2.5-flash" -> word = "2.5"
    [] modelId = "gemini-1.5-pro" -> word = "1.5"
    [] modelId = "openai/gpt-oss-120b" -> word = "gpt-oss"
    [] OTHER -> FALSE

\* ModelConfig of types.ts: idIncludes is the set of model names that are
\* substrings of config.id, models is providerConfig.models
ModelConfigs ==
  { [provider |-> AIProvider.GEMINI, idIncludes |-> {"gemini-2.5-flash"},
     models |-> <<"gemini-2.5-flash">>],
    [provider |-> AIProvider.OPENAI, idIncludes |-> {"gpt-4o"}, models |-> <<"gpt-4o">>],
    [provider |-> AIProvider.CUSTOM, idIncludes |-> {"openai/gpt-oss-120b"},
     models |-> <<"openai/gpt-oss-120b">>] }

NoModelConfig == [provider |-> "none", idIncludes |-> {}, models |-> <<>>]

LegacyModels == {"gemini-2.5-flash", "gemini-1.5-pro"}

\* providerConfig.models.find(m => id.includes(m)) || providerConfig.models[0]
ResolveModelId(config) ==
  LET hits == { i \in DOMAIN config.models : config.models[i] \in config.idIncludes }
  IN IF hits # {} THEN config.models[CHOOSE i \in hits : \A j \in hits : i <= j]
     ELSE config.models[1]

\* ---- search providers
SearchProvider == [GEMINI |-> "gemini", TAVILY |-> "tavily", SERPAPI |-> "serpapi"]

SearchConfig(provider, apiKey, isDefault) ==
  [provider |-> provider, apiKey |-> apiKey, isDefault |-> isDefault]

DEFAULT_SEARCH_PROVIDERS ==
  << SearchConfig(SearchProvider.GEMINI, "", TRUE),
     SearchConfig(SearchProvider.TAVILY, "", FALSE),
     SearchConfig(SearchProvider.SERPAPI, "", FALSE) >>

\* what the settings dialog can have stored
StoredSearchConfigs ==
  { DEFAULT_SEARCH_PROVIDERS,
    << SearchConfig(SearchProvider.GEMINI, "", FALSE),
       SearchConfig(SearchProvider.TAVILY, "k", TRUE),
       SearchConfig(SearchProvider.SERPAPI, "", FALSE) >>,
    << SearchConfig(SearchProvider.GEMINI, "", FALSE),
       SearchConfig(SearchProvider.TAVILY, "", TRUE),
       SearchConfig(SearchProvider.SERPAPI, "", FALSE) >>,
    << SearchConfig(SearchProvider.GEMINI, "", FALSE),
       SearchConfig(SearchProvider.TAVILY, "", FALSE),
       SearchConfig(SearchProvider.SERPAPI, "k", FALSE) >> }

\* Array.prototype.find over positions
FirstIndex(S) == CHOOSE i \in S : \A j \in S : i <= j

getActiveSearchProvider(configs) ==
  LET defaults == { i \in DOMAIN configs : configs[i].isDefault }
      keyed == { i \in DOMAIN configs : configs[i].apiKey # "" }
  IN IF defaults # {} THEN configs[FirstIndex(defaults)]
     ELSE IF keyed # {} THEN configs[FirstIndex(keyed)]
     ELSE SearchConfig(SearchProvider.GEMINI, "", TRUE)

\* SearchResult of webSearchService
SearchResult(title, url, snippet) == [title |-> title, url |-> url, snippet |-> snippet]

\* result lists the search capability can return
SearchResultLists ==
  { <<>>,
    << SearchResult("t1", "u1", "s1") >>,
    << SearchResult("t1", "u1", "s1"), SearchResult("t2", "u2", "s2") >> }

\* ---- sources and grounding metadata
Source(title, uri, snippet) == [title |-> title, uri |-> uri, snippet |-> snippet]

\* one entry of groundingMetadata.groundingChunks; "" is a missing field
GroundingChunk(web, title, uri, snippet) ==
  [web |-> web, title |-> title, uri |-> uri, snippet |-> snippet]

\* chunk.candidates?.[0]?.groundingMetadata
NoMeta == [present |-> FALSE, groundingChunks |-> <<>>]
Meta(groundingChunks) == [present |-> TRUE, groundingChunks |-> groundingChunks]

\* grounding metadata a Gemini backend can attach to a chunk
GroundingInputs ==
  { NoMeta,
    Meta(<< GroundingChunk(FALSE, "", "", "") >>),
    Meta(<< GroundingChunk(TRUE, "t1", "u1", "s1") >>),
    Meta(<< GroundingChunk(TRUE, "", "", ""), GroundingChunk(TRUE, "", "", "") >>),
    Meta(<< GroundingChunk(TRUE, "t1", "u1", "s1"), GroundingChunk(TRUE, "t2", "u2", "") >>) }

\* text a backend chunk (or a complete response) can carry; <<>> is no text
TextInputs == { <<>>, <<"a">>, <<" ">> }

GeminiChunks == [text : TextInputs, meta : GroundingInputs]
OpenAIChunks == [text : TextInputs, meta : {NoMeta}]

RECURSIVE extractSources(_)
\* groundingChunks.map(chunk => chunk.web ? {title, uri, snippet} : null).filter(Boolean)
extractSources(groundingChunks) ==
  IF groundingChunks = <<>> THEN <<>>
  ELSE LET chunk == Head(groundingChunks)
       IN (IF chunk.web
           THEN << Source(OrElse(chunk.title, "Web Source"), OrElse(chunk.uri, "#"),
                          OrElse(chunk.snippet, "")) >>
           ELSE <<>>) \o extractSources(Tail(groundingChunks))

\* ---- fragments the generators yield: { text } or { sources }
TextFragment(text) == [kind |-> "text", text |-> text, sources |-> <<>>]
SourcesFragment(sources) == [kind |-> "sources", text |-> <<>>, sources |-> sources]

\* the sources fragment of a chunk's grounding metadata, if it has sources
GroundingFragments(meta) ==
  IF meta.present
  THEN LET sources == extractSources(meta.groundingChunks)
       IN IF Len(sources) > 0 THEN << SourcesFragment(sources) >> ELSE <<>>
  ELSE <<>>

\* generateGeminiResponse, body of the for await loop
GeminiChunkFragments(chunk) ==
  (IF chunk.text # <<>> /\ Trim(chunk.text) # <<>> THEN << TextFragment(chunk.text) >> ELSE <<>>)
  \o GroundingFragments(chunk.meta)

\* generateResponseStream, body of the for await loop
LegacyChunkFragments(chunk) ==
  (IF chunk.text # <<>> THEN << TextFragment(chunk.text) >> ELSE <<>>)
  \o GroundingFragments(chunk.meta)

\* generateOpenAIResponse, body of the for await loop
OpenAIChunkFragments(chunk) ==
  IF chunk.text # <<>> THEN << TextFragment(chunk.text) >> ELSE <<>>

RECURSIVE SearchSources(_)
\* searchResults.map(result => ({ title, uri: result.url, snippet }))
SearchSources(searchResults) ==
  IF searchResults = <<>> THEN <<>>
  ELSE LET result == Head(searchResults)
       IN << Source(result.title, result.url, result.snippet) >>
          \o SearchSources(Tail(searchResults))

\* "Yield search sources if we have any"
SearchSourcesFragments(searchResults) ==
  IF Len(searchResults) > 0 THEN << SourcesFragment(SearchSources(searchResults)) >> ELSE <<>>

\* ---- messages
\* a message of the chat window; sources is [] when the field is missing
UIMessage(role, content, sources) == [role |-> role, content |-> content, sources |-> sources]

Greeting == UIMessage(Role.ASSISTANT, <<"h">>, <<>>)

\* sessionMessages the chat window can be mounted with
Sessions ==
  { << Greeting >>,
    << Greeting, UIMessage(Role.USER, <<Doc>>, <<>>), UIMessage(Role.ASSISTANT, <<"b">>, <<>>) >> }

\* trimmed input of a send; <<>> is a send that carries files only
Prompts == { <<>>, <<"a">> }

\* the date context line of generateResponse, one token
DateContext == <<"DATE">>
\* the "You have access to real-time web search" instruction, one token
WebSearchContext == <<"WEBSEARCH">>

RECURSIVE convertMessages(_, _)
\* a converted message is [role, content]; parts: [{ text }] is content
convertMessages(msgs, provider) ==
  IF msgs = <<>> THEN <<>>
  ELSE LET msg == Head(msgs)
           converted ==
             IF provider = AIProvider.GEMINI
             THEN IF msg.role = Role.SYSTEM
                  THEN Msg("user", <<"[SYSTEM CONTEXT] ">> \o msg.content)
                  ELSE Msg(IF msg.role = Role.USER THEN "user" ELSE "model", msg.content)
             ELSE Msg(msg.role, msg.content)
       IN <<converted>> \o convertMessages(Tail(msgs), provider)

RECURSIVE LegacyContents(_)
\* contextHistory.map(msg => ({ role: USER ? 'user' : 'model', parts: [{ text }] }))
LegacyContents(msgs) ==
  IF msgs = <<>> THEN <<>>
  ELSE << Msg(IF Head(msgs).role = Role.USER THEN "user" ELSE "model", Head(msgs).content) >>
       \o LegacyContents(Tail(msgs))

RECURSIVE ResultLines(_)
\* the enumerated results of the search context: title, snippet, url each
ResultLines(searchResults) ==
  IF searchResults = <<>> THEN <<>>
  ELSE << Head(searchResults).title, Head(searchResults).snippet, Head(searchResults).url >>
       \o ResultLines(Tail(searchResults))

\* the searchContext template string
SearchContext(query, searchResults) ==
  <<"SEARCH RESULTS FOR">> \o query \o ResultLines(searchResults)

\* a request to the provider backend
Request(op, modelId, msgs, tools) ==
  [op |-> op, model |-> modelId, messages |-> msgs, tools |-> tools]

\* ========================================= chat window: merging fragments
\* [...(lastMessage.sources || []), ...chunk.sources.filter(s => !existingUris.has(s.uri))]
MergeSources(existing, incoming) ==
  LET existingUris == { existing[i].uri : i \in DOMAIN existing }
  IN existing \o SelectSeq(incoming, LAMBDA s : s.uri \notin existingUris)

\* the setMessages updater of the multi-provider ChatWindow.handleSend
MergeFragmentMulti(prev, chunk) ==
  IF prev = <<>> THEN prev
  ELSE LET lastMessage == prev[Len(prev)]
           content ==
             IF /\ chunk.kind = "text"
                /\ chunk.text # <<>>
                /\ Trim(chunk.text) # <<>>
                /\ ~EndsWith(lastMessage.content, chunk.text)
             THEN lastMessage.content \o chunk.text
             ELSE lastMessage.content
           sources ==
             IF chunk.kind = "sources"
             THEN MergeSources(lastMessage.sources, chunk.sources)
             ELSE lastMessage.sources
       IN IF lastMessage.role = Role.ASSISTANT
          THEN [prev EXCEPT ![Len(prev)] = UIMessage(lastMessage.role, content, sources)]
          ELSE prev

\* the setMessages updater of the legacy ChatWindow.handleSend
MergeFragmentLegacy(prev, chunk) ==
  IF prev = <<>> THEN prev
  ELSE LET lastMessage == prev[Len(prev)]
           content ==
             IF chunk.kind = "text" /\ chunk.text # <<>>
             THEN lastMessage.content \o chunk.text
             ELSE lastMessage.content
           sources ==
             IF chunk.kind = "sources"
             THEN MergeSources(lastMessage.sources, chunk.sources)
             ELSE lastMessage.sources
       IN [prev EXCEPT ![Len(prev)] = UIMessage(lastMessage.role, content, sources)]

RECURSIVE MergeAll(_, _, _)
\* for await (const chunk of stream) setMessages(...), over the fragments of one step
MergeAll(window, prev, fragments) ==
  IF fragments = <<>> THEN prev
  ELSE MergeAll(window,
                IF window = "multi" THEN MergeFragmentMulti(prev, Head(fragments))
                ELSE MergeFragmentLegacy(prev, Head(fragments)),
                Tail(fragments))

\* the content handleSend's catch block writes into the assistant message
ErrorContent(window, error) ==
  IF window = "multi"
  THEN IF includes(error, "Unsupported file type") \/ includes(error, "Unsupported MIME type")
       THEN <<"ERR files not supported">>
       ELSE IF includes(error, "JSON") \/ includes(error, "Unexpected non-whitespace")
       THEN <<"ERR invalid response format">>
       ELSE IF includes(error, "API key") THEN <<"ERR API key issue">>
       ELSE IF includes(error, "quota") \/ includes(error, "limit") THEN <<"ERR quota exceeded">>
       ELSE IF includes(error, "model") /\ includes(error, "not found")
       THEN <<"ERR model not available">>
       ELSE IF includes(error, "permission") \/ includes(error, "access")
       THEN <<"ERR access denied">>
       ELSE IF includes(error, "rate") THEN <<"ERR rate limit exceeded">>
       ELSE <<"ERR with model", error.name>>
  ELSE IF includes(error, "Unsupported file type") \/ includes(error, "Unsupported MIME type")
       THEN <<"ERR files not supported">>
       ELSE IF includes(error, "API key") THEN <<"ERR API key issue">>
       ELSE IF includes(error, "quota") \/ includes(error, "limit") THEN <<"ERR quota exceeded">>
       ELSE <<"ERR occurred", error.name>>

\* the setMessages updater of handleSend's catch block
RenderError(window, prev, error) ==
  IF prev = <<>> THEN prev
  ELSE LET lastMessage == prev[Len(prev)]
       IN IF lastMessage.role = Role.ASSISTANT
          THEN [prev EXCEPT ![Len(prev)] =
                  UIMessage(lastMessage.role, ErrorContent(window, error), lastMessage.sources)]
          ELSE prev

\* the setMessages updater of handleRetry's catch block: "Retry failed: ..."
RenderRetryError(prev, error) ==
  IF prev = <<>> THEN prev
  ELSE LET lastMessage == prev[Len(prev)]
       IN IF lastMessage.role = Role.ASSISTANT
          THEN [prev EXCEPT ![Len(prev)] =
                  UIMessage(lastMessage.role, <<"ERR retry failed", error.name>>,
                            lastMessage.sources)]
          ELSE prev

\* ================================================== generators: the locals
NoCall ==
  [fn |-> "none", provider |-> "none", useWebSearch |-> FALSE, prompt |-> <<>>,
   activeSearch |-> "unread", modelId |-> "", messages |-> <<>>, enhancedMessages |-> <<>>,
   tools |-> FALSE, searchResults |-> <<>>, attempt |-> 0, error |-> NoError,
   fallbackError |-> NoError, config |-> NoModelConfig, retry |-> FALSE,
   fallbackMeta |-> NoMeta, fallbackText |-> <<>>]

\* what one step of a generator does before it suspends again: the fragments
\* it yields, then the backend requests and searches it starts, then where it
\* suspends (pc) or the error it throws
Effect(nextPc, locals, yields, requests, searches, throw) ==
  [pc |-> nextPc, call |-> locals, yields |-> yields, requests |-> requests,
   searches |-> searches, throw |-> throw]

\* messages.filter(m => m.role === 'user') and its last element, as a
\* sequence of at most one message
LastUserMessage(msgs) ==
  LET users == { i \in DOMAIN msgs : msgs[i].role = "user" }
  IN IF users = {} THEN <<>>
     ELSE << msgs[CHOOSE i \in users : \A j \in users : j <= i] >>

\* a search record: performWebSearch(query) with the provider it dispatched
\* to; http is whether it got as far as the HTTP call
Search(query, config) ==
  [query |-> query, provider |-> config.provider, http |-> config.apiKey # ""]

\* ------------------------------------------- aiProviderService: Gemini
\* generateGeminiResponse running the external search as well
generateGeminiResponse_withSearch(locals, useWebSearch) ==
  LET modelId == ResolveModelId(currentModelConfig)
      activeSearchProvider == getActiveSearchProvider(searchProviderConfigs)
      last == LastUserMessage(locals.messages)
  IN Effect("streaming",
            [locals EXCEPT !.modelId = modelId, !.tools = useWebSearch,
                           !.attempt = locals.attempt + 1],
            <<>>, << Request("stream", modelId, locals.messages, useWebSearch) >>,
            IF useWebSearch /\ activeSearchProvider.provider # SearchProvider.GEMINI
            THEN << Search(last[1].content, activeSearchProvider) >> ELSE <<>>,
            NoError)

\* generateGeminiResponse down to `await streamPromise`
generateGeminiResponse(locals, useWebSearch) ==
  LET modelId == ResolveModelId(currentModelConfig)
  IN Effect("streaming",
            [locals EXCEPT !.modelId = modelId, !.tools = useWebSearch,
                           !.attempt = locals.attempt + 1],
            <<>>, << Request("stream", modelId, locals.messages, useWebSearch) >>,
            <<>>, NoError)

\* the stream object that `await stream` yields after the loop: the async
\* generator itself, which has no candidates
StreamObjectMeta == NoMeta

\* generateGeminiResponse after the loop: "final grounding metadata"
GeminiFinalFragments ==
  IF StreamObjectMeta.present
  THEN LET finalSources == extractSources(StreamObjectMeta.groundingChunks)
       IN IF Len(finalSources) > 0 THEN << SourcesFragment(finalSources) >> ELSE <<>>
  ELSE <<>>

\* generateResponse, catch around the first generateGeminiResponse
GeminiStreamFailed(locals, error) ==
  IF locals.attempt = 1 /\ locals.useWebSearch /\ includes(error, "googleSearchRetrieval")
  THEN generateGeminiResponse([locals EXCEPT !.error = error], FALSE)
  ELSE Effect("raised", [locals EXCEPT !.error = error], <<>>, <<>>, <<>>, error)

\* ------------------------------------------- aiProviderService: OpenAI
\* generateOpenAIResponse from `hasStreamingIssues` down to the first create()
OpenAIRequest(locals) ==
  LET hasStreamingIssues ==
        ModelIncludes(locals.modelId, "hyperbolic") \/ ModelIncludes(locals.modelId, "gpt-oss")
  IN IF ~hasStreamingIssues
     THEN Effect("streaming", locals, <<>>,
                 << Request("stream", locals.modelId, locals.enhancedMessages, FALSE) >>,
                 <<>>, NoError)
     ELSE Effect("completing", locals, <<>>,
                 << Request("complete", locals.modelId, locals.enhancedMessages, FALSE) >>,
                 <<>>, NoError)

\* generateOpenAIResponse with the search provider test inverted
generateOpenAIResponse_invertedTest(locals0, useWebSearch) ==
  LET locals == [locals0 EXCEPT !.modelId = ResolveModelId(currentModelConfig),
                                !.enhancedMessages = locals0.messages]
      activeSearchProvider == getActiveSearchProvider(searchProviderConfigs)
      last == LastUserMessage(locals.messages)
  IN IF /\ useWebSearch
        /\ activeSearchProvider.provider = SearchProvider.GEMINI
        /\ last # <<>>
        /\ last[1].content # <<>>
     THEN [OpenAIRequest(locals) EXCEPT
             !.searches = << Search(last[1].content, activeSearchProvider) >>]
     ELSE OpenAIRequest(locals)

\* generateOpenAIResponse down to its first suspension
generateOpenAIResponse(locals0, useWebSearch) ==
  LET locals == [locals0 EXCEPT !.modelId = ResolveModelId(currentModelConfig),
                                !.enhancedMessages = locals0.messages]
      activeSearchProvider == getActiveSearchProvider(searchProviderConfigs)
      last == LastUserMessage(locals.messages)
  IN IF /\ useWebSearch
        /\ activeSearchProvider.provider # SearchProvider.GEMINI
        /\ last # <<>>
        /\ last[1].content # <<>>
     THEN \* performWebSearch: a missing key throws before the HTTP call, and
          \* the catch goes on without results
          IF activeSearchProvider.apiKey # ""
          THEN Effect("search", locals, <<>>, <<>>,
                      << Search(last[1].content, activeSearchProvider) >>, NoError)
          ELSE [OpenAIRequest(locals) EXCEPT
                  !.searches = << Search(last[1].content, activeSearchProvider) >>]
     ELSE OpenAIRequest(locals)

\* OpenAISearchReturned inserting the search context for an empty result list too
OpenAISearchReturned_alwaysInsert(locals, results) ==
  LET last == LastUserMessage(locals.messages)[1]
      enhanced ==
        SubSeq(locals.messages, 1, Len(locals.messages) - 1)
        \o << Msg(Role.SYSTEM, SearchContext(last.content, results)), last >>
  IN OpenAIRequest([locals EXCEPT !.searchResults = results, !.enhancedMessages = enhanced])

\* OpenAISearchReturned putting the search context after the last message
OpenAISearchReturned_append(locals, results) ==
  LET last == LastUserMessage(locals.messages)[1]
      enhanced ==
        IF Len(results) > 0
        THEN locals.messages \o << Msg(Role.SYSTEM, SearchContext(last.content, results)) >>
        ELSE locals.messages
  IN OpenAIRequest([locals EXCEPT !.searchResults = results, !.enhancedMessages = enhanced])

\* performWebSearch resolved with searchResponse.results
OpenAISearchReturned(locals, results) ==
  LET last == LastUserMessage(locals.messages)[1]
      enhanced ==
        IF Len(results) > 0
        THEN SubSeq(locals.messages, 1, Len(locals.messages) - 1)
             \o << Msg(Role.SYSTEM, SearchContext(last.content, results)), last >>
        ELSE locals.messages
  IN OpenAIRequest([locals EXCEPT !.searchResults = results, !.enhancedMessages = enhanced])

\* the catch of the fallback's try: the classified text that is yielded
OpenAIFallbackFailedText(fallbackError) ==
  IF includes(fallbackError, "500") THEN <<"WARN server issues">>
  ELSE IF includes(fallbackError, "rate limit") THEN <<"WARN rate limit exceeded">>
  ELSE IF includes(fallbackError, "authentication") \/ includes(fallbackError, "401")
  THEN <<"WARN authentication error">>
  ELSE <<"WARN error communicating", fallbackError.name>>

\* generateOpenAIResponse, outer catch: "If streaming fails, try non-streaming"
OpenAIStreamFailed(locals, error) ==
  Effect("fallback", [locals EXCEPT !.error = error], <<>>,
         << Request("complete", locals.modelId, locals.enhancedMessages, FALSE) >>,
         <<>>, NoError)

\* --------------------------------------- aiProviderService: generateResponse
\* generateResponse down to the first suspension of the generator it delegates to
generateResponse(history, prompt, useWebSearch) ==
  LET provider == currentModelConfig.provider
      allMessages == history \o << Msg(Role.USER, prompt) >>
      systemMessages ==
        << Msg(Role.SYSTEM, DateContext) >>
        \o (IF useWebSearch /\ provider = AIProvider.GEMINI
            THEN << Msg(Role.SYSTEM, WebSearchContext) >> ELSE <<>>)
      convertedMessages == convertMessages(systemMessages \o allMessages, provider)
      activeSearch ==
        IF useWebSearch THEN getActiveSearchProvider(searchProviderConfigs).provider
        ELSE "unread"
      locals == [NoCall EXCEPT !.fn = "generateResponse", !.provider = provider,
                               !.config = currentModelConfig,
                               !.useWebSearch = useWebSearch, !.prompt = prompt,
                               !.activeSearch = activeSearch,
                               !.messages = convertedMessages]
  IN IF provider = AIProvider.GEMINI
     THEN generateGeminiResponse(locals, useWebSearch)
     ELSE generateOpenAIResponse(locals, useWebSearch)

\* --------------------------------------- geminiService: generateResponseStream
\* "Determine appropriate context window based on model": 30000 by default
ModelMaxTokens(model) == IF ModelIncludes(model, "2.5") THEN 100000 ELSE 30000

\* generateResponseStream down to `await Promise.race([streamPromise, timeoutPromise])`
generateResponseStream(history, prompt, useWebSearch) ==
  LET model == selectedModel
      maxTokens == ModelMaxTokens(model)
      contextHistory == manageContextWindow(history, maxTokens)
      isLastMessageCurrentPrompt ==
        /\ Len(contextHistory) > 0
        /\ contextHistory[Len(contextHistory)].role = Role.USER
        /\ contextHistory[Len(contextHistory)].content = prompt
      contents ==
        IF isLastMessageCurrentPrompt THEN LegacyContents(contextHistory)
        ELSE LegacyContents(contextHistory) \o << Msg("user", prompt) >>
      locals == [NoCall EXCEPT !.fn = "generateResponseStream",
                               !.provider = AIProvider.GEMINI,
                               !.useWebSearch = useWebSearch, !.prompt = prompt,
                               !.modelId = model, !.messages = contents,
                               !.enhancedMessages = contents, !.tools = useWebSearch,
                               !.attempt = 1]
  IN Effect("creating", locals, <<>>, << Request("stream", model, contents, useWebSearch) >>,
            <<>>, NoError)

\* "Provide specific error messages for common issues", then the re-throw
ClassifyError(error) ==
  IF includes(error, "model") /\ includes(error, "not found")
  THEN Err("Model is not available", {"model"})
  ELSE IF includes(error, "quota") \/ includes(error, "limit")
  THEN Err("API quota exceeded for model", {"quota", "model"})
  ELSE IF includes(error, "permission") \/ includes(error, "access")
  THEN Err("Access denied for model", {"model", "API key", "permission"})
  ELSE IF includes(error, "rate")
  THEN Err("Rate limit exceeded for model", {"limit", "model"})
  ELSE IF includes(error, "timeout")
  THEN Err("Request timed out for model", {"model"})
  ELSE error

\* generateResponseStream, catch block down to the fallback's await
LegacyStreamFailed(locals, error) ==
  IF includes(error, "timeout") \/ includes(error, "stream")
  THEN Effect("fallback", [locals EXCEPT !.error = error], <<>>,
              << Request("complete", locals.modelId, locals.messages, locals.tools) >>,
              <<>>, NoError)
  ELSE Effect("raised", [locals EXCEPT !.error = error], <<>>, <<>>, <<>>,
              ClassifyError(error))

\* ------------------------------------------------ completions (non-streaming)
\* generateOpenAIResponse: a non-streaming create() resolved with content.
\* In the try block the sources follow whatever the content was; in the
\* fallback they are yielded only inside `if (content)`.
OpenAICompletionReturned(locals, where, content) ==
  IF where = "completing"
  THEN Effect("done", locals,
              (IF content # <<>> THEN << TextFragment(content) >> ELSE <<>>)
              \o SearchSourcesFragments(locals.searchResults),
              <<>>, <<>>, NoError)
  ELSE Effect("done", locals,
              IF content # <<>>
              THEN << TextFragment(content) >> \o SearchSourcesFragments(locals.searchResults)
              ELSE <<>>,
              <<>>, <<>>, NoError)

\* generateOpenAIResponse: catch (fallbackError) yields a classified text
\* the fallback's catch re-throwing instead
OpenAIFallbackFailed_throw(locals, fallbackError) ==
  Effect("raised", [locals EXCEPT !.fallbackError = fallbackError], <<>>, <<>>, <<>>,
         fallbackError)

OpenAIFallbackFailed(locals, fallbackError) ==
  Effect("done", [locals EXCEPT !.fallbackError = fallbackError],
         << TextFragment(OpenAIFallbackFailedText(fallbackError)) >>,
         <<>>, <<>>, NoError)

\* generateResponseStream: the fallback generateContent resolved with text
LegacyFallbackReturned(locals, text) ==
  IF text # <<>>
  THEN Effect("done", locals, << TextFragment(text) >>, <<>>, <<>>, NoError)
  ELSE Effect("raised", locals, <<>>, <<>>, <<>>, ClassifyError(locals.error))

\* generateResponseStream: catch (fallbackError) only logs; the original
\* error is classified and thrown
LegacyFallbackFailed(locals, fallbackError) ==
  Effect("raised", [locals EXCEPT !.fallbackError = fallbackError], <<>>, <<>>, <<>>,
         ClassifyError(locals.error))

\* ================================================================ actions
configVars == <<build, selectedModel, currentModelConfig, searchProviderConfigs>>

\* one step of the running generator and of the for await loop that consumes
\* it: the yielded fragments are merged into the window's messages, an error
\* thrown is rendered by handleSend's catch, and `finally` clears isStreaming
ApplyFrom(base, effect, yieldedBefore, requestsBefore, searchesBefore) ==
  LET merged == MergeAll(build, base, effect.yields)
      thrown == effect.throw.thrown
  IN /\ yielded' = yieldedBefore \o effect.yields
     /\ backendLog' = requestsBefore \o effect.requests
     /\ searchLog' = searchesBefore \o effect.searches
     /\ call' = effect.call
     /\ raised' = effect.throw
     /\ pc' = IF thrown THEN "raised" ELSE effect.pc
     /\ isStreaming' = ~(thrown \/ effect.pc = "done")
     /\ messages' = IF ~thrown THEN merged
                    ELSE IF effect.call.retry THEN RenderRetryError(merged, effect.throw)
                    ELSE RenderError(build, merged, effect.throw)

\* a step of the call that is already running
Apply(base, effect) == ApplyFrom(base, effect, yielded, backendLog, searchLog)

\* multi-provider ChatWindow.handleSend, down to the generator's first await
handleSend(prompt, useWebSearch) ==
  /\ build = "multi"
  /\ pc = "idle"
  /\ ~isStreaming
  /\ LET userMessage == UIMessage(Role.USER, prompt, <<>>)
         historyForAPI == messages \o << userMessage >>
         newMessages == messages \o << userMessage, UIMessage(Role.ASSISTANT, <<>>, <<>>) >>
     IN Apply(newMessages, generateResponse(historyForAPI, prompt, useWebSearch))
  /\ UNCHANGED <<produced, chunks>>
  /\ UNCHANGED configVars
  /\ UNCHANGED windowVars
  /\ UNCHANGED authVars
  /\ UNCHANGED restVars
  /\ UNCHANGED chatVars

\* legacy ChatWindow.handleSend; historyForAPI is assigned inside the
\* setMessages updater, which React runs either at once (then it is prev) or
\* at the next render, after the generator was created (then it is still [])
handleSendLegacy(prompt, useWebSearch, updaterRanFirst) ==
  /\ build = "legacy"
  /\ pc = "idle"
  /\ ~isStreaming
  /\ LET userMessage == UIMessage(Role.USER, prompt, <<>>)
         historyForAPI == IF updaterRanFirst THEN messages ELSE <<>>
         newMessages == messages \o << userMessage, UIMessage(Role.ASSISTANT, <<>>, <<>>) >>
     IN Apply(newMessages, generateResponseStream(historyForAPI, prompt, useWebSearch))
  /\ UNCHANGED <<produced, chunks>>
  /\ UNCHANGED configVars
  /\ UNCHANGED windowVars
  /\ UNCHANGED authVars
  /\ UNCHANGED restVars
  /\ UNCHANGED chatVars

\* ChatWindow.handleRetry: the last assistant message is dropped and the
\* response to the last user message is generated again
handleRetry(useWebSearch) ==
  /\ build = "multi"
  /\ pc \in {"idle", "done", "raised"}
  /\ ~isStreaming
  /\ Len(messages) >= 2
  /\ messages[Len(messages)].role = Role.ASSISTANT
  /\ messages[Len(messages) - 1].role = Role.USER
  /\ LET lastUserMessage == messages[Len(messages) - 1]
         messagesWithoutLastAssistant == SubSeq(messages, 1, Len(messages) - 1)
         historyForAPI == messagesWithoutLastAssistant
         newMessages == messagesWithoutLastAssistant
                        \o << UIMessage(Role.ASSISTANT, <<>>, <<>>) >>
         started == generateResponse(historyForAPI, lastUserMessage.content, useWebSearch)
     IN ApplyFrom(newMessages, [started EXCEPT !.call.retry = TRUE], <<>>, <<>>, <<>>)
  /\ produced' = <<>>
  /\ chunks' = 0
  /\ UNCHANGED configVars
  /\ UNCHANGED windowVars
  /\ UNCHANGED authVars
  /\ UNCHANGED restVars
  /\ UNCHANGED chatVars

\* the model selection changes: ChatWindow's effect calls setCurrentModel
setCurrentModel(modelConfig) ==
  /\ build = "multi"
  /\ modelConfig # currentModelConfig
  /\ currentModelConfig' = modelConfig
  /\ UNCHANGED <<build, selectedModel, searchProviderConfigs>>
  /\ UNCHANGED <<messages, isStreaming, pc, call, yielded, produced, chunks, backendLog,
                 searchLog, raised>>
  /\ UNCHANGED windowVars
  /\ UNCHANGED authVars
  /\ UNCHANGED restVars
  /\ UNCHANGED chatVars

\* the model selection changes: geminiService.setSelectedModel
setSelectedModel(model) ==
  /\ build = "legacy"
  /\ model # selectedModel
  /\ selectedModel' = model
  /\ UNCHANGED <<build, currentModelConfig, searchProviderConfigs>>
  /\ UNCHANGED <<messages, isStreaming, pc, call, yielded, produced, chunks, backendLog,
                 searchLog, raised>>
  /\ UNCHANGED windowVars
  /\ UNCHANGED authVars
  /\ UNCHANGED restVars
  /\ UNCHANGED chatVars

\* performWebSearch resolves
SearchReturns(results) ==
  /\ pc = "search"
  /\ Apply(messages, OpenAISearchReturned(call, results))
  /\ UNCHANGED <<produced, chunks>>
  /\ UNCHANGED configVars
  /\ UNCHANGED windowVars
  /\ UNCHANGED authVars
  /\ UNCHANGED restVars
  /\ UNCHANGED chatVars

\* performWebSearch rejects: "Web search failed, proceeding without search results"
SearchFails ==
  /\ pc = "search"
  /\ Apply(messages, OpenAIRequest(call))
  /\ UNCHANGED <<produced, chunks>>
  /\ UNCHANGED configVars
  /\ UNCHANGED windowVars
  /\ UNCHANGED authVars
  /\ UNCHANGED restVars
  /\ UNCHANGED chatVars

\* generateResponseStream: streamPromise wins the race
StreamCreated ==
  /\ pc = "creating"
  /\ pc' = "streaming"
  /\ UNCHANGED <<messages, isStreaming, call, yielded, produced, chunks, backendLog,
                 searchLog, raised>>
  /\ UNCHANGED configVars
  /\ UNCHANGED windowVars
  /\ UNCHANGED authVars
  /\ UNCHANGED restVars
  /\ UNCHANGED chatVars

\* generateResponseStream: timeoutPromise wins the race
StreamTimeout ==
  /\ pc = "creating"
  /\ Apply(messages, LegacyStreamFailed(call, TimeoutError))
  /\ UNCHANGED <<produced, chunks>>
  /\ UNCHANGED configVars
  /\ UNCHANGED windowVars
  /\ UNCHANGED authVars
  /\ UNCHANGED restVars
  /\ UNCHANGED chatVars

\* the fragments the running generator yields for one backend chunk
ChunkFragments(locals, chunk) ==
  IF locals.fn = "generateResponseStream" THEN LegacyChunkFragments(chunk)
  ELSE IF locals.provider = AIProvider.GEMINI THEN GeminiChunkFragments(chunk)
  ELSE OpenAIChunkFragments(chunk)

\* the backend delivers one chunk of the stream
StreamChunk(chunk) ==
  /\ pc = "streaming"
  /\ chunks < MaxChunks
  /\ chunk \in (IF call.provider = AIProvider.GEMINI THEN GeminiChunks ELSE OpenAIChunks)
  /\ Apply(messages, Effect("streaming", call, ChunkFragments(call, chunk), <<>>, <<>>, NoError))
  /\ produced' = produced \o chunk.text
  /\ chunks' = chunks + 1
  /\ UNCHANGED configVars
  /\ UNCHANGED windowVars
  /\ UNCHANGED authVars
  /\ UNCHANGED restVars
  /\ UNCHANGED chatVars

\* what the running generator does when the backend's stream ends
StreamEnded(locals) ==
  IF locals.fn = "generateResponseStream"
  THEN Effect("done", locals, <<>>, <<>>, <<>>, NoError)
  ELSE IF locals.provider = AIProvider.GEMINI
  THEN Effect("done", locals, GeminiFinalFragments, <<>>, <<>>, NoError)
  ELSE Effect("done", locals, SearchSourcesFragments(locals.searchResults), <<>>, <<>>, NoError)

\* the backend's stream ends
StreamEnds ==
  /\ pc = "streaming"
  /\ Apply(messages, StreamEnded(call))
  /\ UNCHANGED <<produced, chunks>>
  /\ UNCHANGED configVars
  /\ UNCHANGED windowVars
  /\ UNCHANGED authVars
  /\ UNCHANGED restVars
  /\ UNCHANGED chatVars

\* what the running generator does when creating or reading the stream throws
StreamFailed(locals, error) ==
  IF locals.fn = "generateResponseStream" THEN LegacyStreamFailed(locals, error)
  ELSE IF locals.provider = AIProvider.GEMINI THEN GeminiStreamFailed(locals, error)
  ELSE OpenAIStreamFailed(locals, error)

\* the streaming request fails, before or between chunks
StreamFails(error) ==
  /\ pc \in {"creating", "streaming"}
  /\ Apply(messages, StreamFailed(call, error))
  /\ UNCHANGED <<produced, chunks>>
  /\ UNCHANGED configVars
  /\ UNCHANGED windowVars
  /\ UNCHANGED authVars
  /\ UNCHANGED restVars
  /\ UNCHANGED chatVars

\* what the running generator does with the result of a non-streaming call
CompletionReturned(locals, where, text) ==
  IF locals.fn = "generateResponseStream" THEN LegacyFallbackReturned(locals, text)
  ELSE OpenAICompletionReturned(locals, where, text)

\* grounding metadata the response of a non-streaming call can carry
CompletionMetas == { NoMeta, Meta(<< GroundingChunk(TRUE, "t1", "u1", "s1") >>) }

\* a non-streaming completion resolves with text; meta is the grounding metadata of the
\* response, which only a Gemini request with the search tool can get
CompletionReturns(text, meta) ==
  /\ pc \in {"completing", "fallback"}
  /\ meta.present => (call.fn = "generateResponseStream" /\ call.tools)
  /\ Apply(messages, CompletionReturned([call EXCEPT !.fallbackMeta = meta,
                                                      !.fallbackText = text], pc, text))
  /\ UNCHANGED <<produced, chunks>>
  /\ UNCHANGED configVars
  /\ UNCHANGED windowVars
  /\ UNCHANGED authVars
  /\ UNCHANGED restVars
  /\ UNCHANGED chatVars

\* what the running generator does when a non-streaming call throws
CompletionFailed(locals, where, error) ==
  IF locals.fn = "generateResponseStream" THEN LegacyFallbackFailed(locals, error)
  ELSE IF where = "completing" THEN OpenAIStreamFailed(locals, error)
  ELSE OpenAIFallbackFailed(locals, error)

\* a non-streaming completion rejects
CompletionFails(error) ==
  /\ pc \in {"completing", "fallback"}
  /\ Apply(messages, CompletionFailed(call, pc, error))
  /\ UNCHANGED <<produced, chunks>>
  /\ UNCHANGED configVars
  /\ UNCHANGED windowVars
  /\ UNCHANGED authVars
  /\ UNCHANGED restVars
  /\ UNCHANGED chatVars

\* ============================================================ auth server
\* responses the auth server sends in one run
MaxRequests == 6
\* times the clock advances in one run
MaxTicks == 2
\* milliseconds the clock advances by in one step
TickMs == 400000

\* failed attempts after which verify-code stops comparing
MaxAttempts == 3
\* milliseconds a login code stays valid
CodeLifetime == 10 * 60 * 1000

toLowerCase(t) ==
  [i \in 1..Len(t) |-> IF t[i] = "A" THEN "a" ELSE IF t[i] = "F" THEN "f" ELSE t[i]]

\* email.trim().toLowerCase()
normalizeEmail(email) == toLowerCase(Trim(email))

\* process.env.AUTHORIZED_EMAILS, split at its commas
AUTHORIZED_EMAILS == << <<" ", "A">> >>

getAuthorizedEmails ==
  { normalizeEmail(AUTHORIZED_EMAILS[i]) : i \in DOMAIN AUTHORIZED_EMAILS }

\* the email field of a request body; <<>> is a missing or empty field
EmailInputs == { <<>>, <<"a">>, <<"A", " ">>, <<"z">> }

NormalEmails == { normalizeEmail(email) : email \in EmailInputs }

\* what generateLoginCode can return
LoginCodes == { <<"1">>, <<"2">> }

\* the code field of a request body; <<>> is a missing or empty field
CodeInputs == { <<>>, <<"1">>, <<"2">>, <<"1", " ">> }

\* loginCodes.get(key) of a key the Map does not hold
NoStoredData == [code |-> <<>>, expiresAt |-> 0 - 1, attempts |-> 0 - 1]

MapGet(map, key) == IF key \in DOMAIN map THEN map[key] ELSE NoStoredData

MapSet(map, key, value) ==
  [k \in DOMAIN map \cup {key} |-> IF k = key THEN value ELSE map[k]]

MapDelete(map, key) == [k \in DOMAIN map \ {key} |-> map[k]]

EmptyMap == [k \in {} |-> NoStoredData]

NoResponse ==
  [route |-> "", email |-> <<>>, code |-> <<>>, status |-> 0, storedData |-> NoStoredData,
   token |-> <<>>]

\* res.status(status).json(...) of the handler of route; token is the token of the request
\* body (verify-session) or of the response body (verify-code), <<>> for none
RespondWith(route, email, code, status, storedData, token) ==
  /\ handled < MaxRequests
  /\ handled' = handled + 1
  /\ response' = [route |-> route, email |-> email, code |-> code, status |-> status,
                  storedData |-> storedData, token |-> token]

Respond(route, email, code, status, storedData) ==
  RespondWith(route, email, code, status, storedData, <<>>)

\* bytes crypto.randomBytes is asked for
TokenBytes == 32
\* token.length that verify-session accepts
TokenLength == 64

HexDigits == {"0", "1", "2", "3", "4", "5", "6", "7", "8", "9", "a", "b", "c", "d", "e", "f"}

\* what crypto.randomBytes(32).toString('hex') can return
SessionTokens == { Rep("a", 2 * TokenBytes), Rep("1", 2 * TokenBytes) }

\* the token field of a verify-session request body; <<>> is a missing or empty field
TokenInputs ==
  SessionTokens \cup { <<>>, Rep("F", TokenLength), Rep("a", TokenLength - 1),
                       Rep("g", TokenLength) }

\* /^[a-f0-9]+$/i.test(token)
IsHex(token) ==
  /\ token # <<>>
  /\ \A i \in 1..Len(token) : toLowerCase(<<token[i]>>)[1] \in HexDigits

\* verify-session: the token test
TokenAccepted(token) == Len(token) = TokenLength /\ IsHex(token)

\* verify-code: the attempts check
TooManyAttempts_oneLate(storedData) == storedData.attempts > MaxAttempts

TooManyAttempts(storedData) == storedData.attempts >= MaxAttempts

\* POST /auth/request-code up to its first await
RequestCodeReceived(email, configured) ==
  LET normalizedEmail == normalizeEmail(email)
      job == [email |-> normalizedEmail, stage |-> "verify"]
  IN /\ IF email = <<>>
          THEN /\ Respond("request-code", <<>>, <<>>, 400, NoStoredData)
               /\ UNCHANGED mailJobs
        ELSE IF normalizedEmail \notin getAuthorizedEmails
          THEN /\ Respond("request-code", normalizedEmail, <<>>, 403, NoStoredData)
               /\ UNCHANGED mailJobs
        ELSE IF ~configured
          THEN /\ Respond("request-code", normalizedEmail, <<>>, 500, NoStoredData)
               /\ UNCHANGED mailJobs
        ELSE /\ job \notin mailJobs
             /\ mailJobs' = mailJobs \cup {job}
             /\ UNCHANGED <<response, handled>>
     /\ UNCHANGED <<loginCodes, now, failedAttempts, evaluatedAttempts, issuedTokens>>
     /\ UNCHANGED windowVars
     /\ UNCHANGED genVars
     /\ UNCHANGED chatVars
     /\ UNCHANGED restVars

\* POST /auth/request-code: transporter.verify() settles; the code is stored before the
\* mail is handed to the transporter
TransporterVerified(job, ok) ==
  /\ job \in mailJobs
  /\ job.stage = "verify"
  /\ IF ~ok
       THEN /\ Respond("request-code", job.email, <<>>, 500, NoStoredData)
            /\ mailJobs' = mailJobs \ {job}
            /\ UNCHANGED <<loginCodes, failedAttempts, evaluatedAttempts>>
       ELSE /\ \E code \in LoginCodes :
                 loginCodes' = MapSet(loginCodes, job.email,
                                      [code |-> code, expiresAt |-> now + CodeLifetime,
                                       attempts |-> 0])
            /\ mailJobs' = (mailJobs \ {job}) \cup {[email |-> job.email, stage |-> "send"]}
            /\ failedAttempts' = [failedAttempts EXCEPT ![job.email] = 0]
            /\ evaluatedAttempts' = [evaluatedAttempts EXCEPT ![job.email] = 0]
            /\ UNCHANGED <<response, handled>>
  /\ UNCHANGED <<now, issuedTokens>>
  /\ UNCHANGED windowVars
  /\ UNCHANGED genVars
  /\ UNCHANGED chatVars
  /\ UNCHANGED restVars

\* POST /auth/request-code: transporter.sendMail() settles
MailSent(job, ok) ==
  /\ job \in mailJobs
  /\ job.stage = "send"
  /\ Respond("request-code", job.email, <<>>, IF ok THEN 200 ELSE 500, NoStoredData)
  /\ mailJobs' = mailJobs \ {job}
  /\ UNCHANGED <<loginCodes, now, failedAttempts, evaluatedAttempts, issuedTokens>>
  /\ UNCHANGED windowVars
  /\ UNCHANGED genVars
  /\ UNCHANGED chatVars
  /\ UNCHANGED restVars

\* POST /auth/verify-code
verifyCode(email, code) ==
  LET normalizedEmail == normalizeEmail(email)
      storedData == MapGet(loginCodes, normalizedEmail)
  IN /\ IF email = <<>> \/ code = <<>>
          THEN /\ Respond("verify-code", IF email = <<>> THEN <<>> ELSE normalizedEmail,
                          code, 400, NoStoredData)
               /\ UNCHANGED <<loginCodes, failedAttempts, evaluatedAttempts, issuedTokens>>
        ELSE IF storedData = NoStoredData
          THEN /\ Respond("verify-code", normalizedEmail, code, 404, storedData)
               /\ UNCHANGED <<loginCodes, failedAttempts, evaluatedAttempts, issuedTokens>>
        ELSE IF now > storedData.expiresAt
          THEN /\ Respond("verify-code", normalizedEmail, code, 410, storedData)
               /\ loginCodes' = MapDelete(loginCodes, normalizedEmail)
               /\ UNCHANGED <<failedAttempts, evaluatedAttempts, issuedTokens>>
        ELSE IF TooManyAttempts(storedData)
          THEN /\ Respond("verify-code", normalizedEmail, code, 429, storedData)
               /\ loginCodes' = MapDelete(loginCodes, normalizedEmail)
               /\ UNCHANGED <<failedAttempts, evaluatedAttempts, issuedTokens>>
        ELSE IF storedData.code # Trim(code)
          THEN /\ Respond("verify-code", normalizedEmail, code, 401, storedData)
               /\ loginCodes' = [loginCodes EXCEPT ![normalizedEmail].attempts = @ + 1]
               /\ failedAttempts' = [failedAttempts EXCEPT ![normalizedEmail] = @ + 1]
               /\ evaluatedAttempts' = [evaluatedAttempts EXCEPT ![normalizedEmail] = @ + 1]
               /\ UNCHANGED issuedTokens
        ELSE /\ \E sessionToken \in SessionTokens :
                  /\ RespondWith("verify-code", normalizedEmail, code, 200, storedData,
                                 sessionToken)
                  /\ issuedTokens' = issuedTokens \cup {sessionToken}
             /\ loginCodes' = MapDelete(loginCodes, normalizedEmail)
             /\ evaluatedAttempts' = [evaluatedAttempts EXCEPT ![normalizedEmail] = @ + 1]
             /\ UNCHANGED failedAttempts
     /\ UNCHANGED <<now, mailJobs>>
     /\ UNCHANGED windowVars
     /\ UNCHANGED genVars
     /\ UNCHANGED chatVars
     /\ UNCHANGED restVars

\* POST /auth/verify-session
verifySession(token) ==
  /\ IF token = <<>>
       THEN RespondWith("verify-session", <<>>, <<>>, 401, NoStoredData, token)
     ELSE IF TokenAccepted(token)
       THEN RespondWith("verify-session", <<>>, <<>>, 200, NoStoredData, token)
     ELSE RespondWith("verify-session", <<>>, <<>>, 401, NoStoredData, token)
  /\ UNCHANGED <<loginCodes, now, mailJobs, failedAttempts, evaluatedAttempts, issuedTokens>>
  /\ UNCHANGED windowVars
  /\ UNCHANGED genVars
  /\ UNCHANGED chatVars
  /\ UNCHANGED restVars

\* time passes between two requests
Tick ==
  /\ now < MaxTicks * TickMs
  /\ now' = now + TickMs
  /\ UNCHANGED <<loginCodes, mailJobs, response, handled, failedAttempts, evaluatedAttempts,
                 issuedTokens>>
  /\ UNCHANGED windowVars
  /\ UNCHANGED genVars
  /\ UNCHANGED chatVars
  /\ UNCHANGED restVars

\* the server has started: no code stored, nothing in flight
AuthInit ==
  /\ loginCodes = EmptyMap
  /\ now = 0
  /\ mailJobs = {}
  /\ response = NoResponse
  /\ handled = 0
  /\ failedAttempts = [email \in NormalEmails |-> 0]
  /\ evaluatedAttempts = [email \in NormalEmails |-> 0]
  /\ issuedTokens = {}

\* the auth server while the other models run
AuthQuiet == AuthInit

MailJobs == [email : getAuthorizedEmails, stage : {"verify", "send"}]

AuthNext ==
  \/ \E email \in EmailInputs, configured \in BOOLEAN : RequestCodeReceived(email, configured)
  \/ \E job \in MailJobs, ok \in BOOLEAN : TransporterVerified(job, ok)
  \/ \E job \in MailJobs, ok \in BOOLEAN : MailSent(job, ok)
  \/ \E email \in EmailInputs, code \in CodeInputs : verifyCode(email, code)
  \/ \E token \in TokenInputs : verifySession(token)
  \/ Tick

\* ======================================================= import and export
\* most messages of a session that is exported
MaxSessionMessages == 3
\* most messages of a file that was not exported by the application
MaxFileMessages == 2

\* a ChatSession of useChatHistory, reduced to its messages and its title
Session(msgs, title) == [messages |-> msgs, title |-> title]

\* a text field the JSON object does not have
Undefined == <<"undefined">>

\* one element of data.messages after JSON.parse; sources is <<>> when the field is missing
RawMessage(role, content, text, sources) ==
  [role |-> role, content |-> content, text |-> text, sources |-> sources]

\* the parsed file: data.title and data.messages; hasMessages is FALSE for a file
\* without a messages field
FileData(title, hasMessages, msgs) ==
  [chosen |-> TRUE, title |-> title, hasMessages |-> hasMessages, messages |-> msgs]

NoFile == [chosen |-> FALSE, title |-> "", hasMessages |-> FALSE, messages |-> <<>>]

\* x || fallback on a text field: a missing field and the empty string are falsy
TextOrElse(x, fallback) == IF x = Undefined \/ x = <<>> THEN fallback ELSE x

\* the role chosen from the position alone
importRole_positional(role, index) == IF index % 2 = 0 THEN Role.USER ELSE Role.ASSISTANT

\* handleImportChat: the role of message index (counted from 0) of the file
importRole(role, index) ==
  IF role = "user" THEN Role.USER
  ELSE IF role = "assistant" \/ role = "model" THEN Role.ASSISTANT
  ELSE IF role # Role.USER /\ role # Role.ASSISTANT
    THEN (IF index % 2 = 0 THEN Role.USER ELSE Role.ASSISTANT)
  ELSE role

\* the mapping documented under Role Compatibility
DocumentedRole(role) ==
  IF role \in {"user", "human"} THEN Role.USER ELSE Role.ASSISTANT

\* handleImportChat: the callback of importedMessages.map
validateMessage(msg, index) ==
  UIMessage(importRole(msg.role, index),
            TextOrElse(msg.content, TextOrElse(msg.text, <<>>)),
            msg.sources)

\* .filter(msg => msg.content.trim() !== '')
HasContent(msg) == Trim(msg.content) # <<>>

\* handleImportChat: validatedMessages
validatedMessages(importedMessages) ==
  SelectSeq([i \in 1..Len(importedMessages) |-> validateMessage(importedMessages[i], i - 1)],
            HasContent)

\* JSON.parse(JSON.stringify(message)): a Message has no text field
JsonMessage(m) == RawMessage(m.role, m.content, Undefined, m.sources)

\* JSON.parse of the file handleExportChat writes for a session
ExportedFile(session) ==
  FileData(session.title, TRUE, [i \in 1..Len(session.messages) |-> JsonMessage(session.messages[i])])

\* hasMeaningfulConversation
hasMeaningfulConversation(session) ==
  /\ Len(session.messages) > 1
  /\ \E i \in 1..Len(session.messages) : session.messages[i].role = Role.USER
  /\ \E i \in 1..Len(session.messages) :
       /\ session.messages[i].role = Role.ASSISTANT
       /\ Trim(session.messages[i].content) # <<>>

\* messages a stored session can hold: a prompt, an answer, and the assistant message
\* of a call that produced no text or only white space
SessionMessages ==
  { UIMessage(Role.USER, <<"a">>, <<>>), UIMessage(Role.ASSISTANT, <<"h">>, <<>>),
    UIMessage(Role.ASSISTANT, <<>>, <<>>), UIMessage(Role.ASSISTANT, <<" ">>, <<>>) }

ExportSessions ==
  { Session(msgs, "t") : msgs \in SeqsUpTo(SessionMessages, MaxSessionMessages) \ {<<>>} }

\* the role names a file can carry
FileRoles == {"user", "assistant", "model", "human", "ai", "system"}

\* messages of a file written by another tool
FileMessages ==
  { RawMessage(role, <<"a">>, Undefined, <<>>) : role \in FileRoles }
    \cup { RawMessage("user", Undefined, <<"b">>, <<>>),
           RawMessage("assistant", <<>>, Undefined, <<>>) }

ForeignFiles ==
  { FileData(title, TRUE, msgs) : title \in {"", "t"},
                                  msgs \in SeqsUpTo(FileMessages, MaxFileMessages) }
    \cup { FileData(title, FALSE, <<>>) : title \in {"", "t"} }

ImportResult(status, msgs) == [status |-> status, messages |-> msgs]

\* handleExportChat: the file is written from the active session
handleExportChat ==
  /\ file' = ExportedFile(ioSession)
  /\ fileOrigin' = "export"
  /\ exportedFrom' = ioSession.messages
  /\ imported' = ImportResult("none", <<>>)
  /\ UNCHANGED ioSession
  /\ UNCHANGED <<windowVars, genVars, chatVars, authVars, storeVars>>

\* the user puts a file of another origin into the import dialog
ChooseForeignFile(data) ==
  /\ file' = data
  /\ fileOrigin' = "foreign"
  /\ exportedFrom' = <<>>
  /\ imported' = ImportResult("none", <<>>)
  /\ UNCHANGED ioSession
  /\ UNCHANGED <<windowVars, genVars, chatVars, authVars, storeVars>>

\* handleImportChat with reader.onload; shouldProceed is the answer to confirm()
handleImportChat(shouldProceed) ==
  /\ file # NoFile
  /\ LET validated == validatedMessages(file.messages)
         importedTitle == OrElse(file.title, "Imported Chat")
     IN IF ~file.hasMessages
          THEN /\ imported' = ImportResult("invalid", <<>>)
               /\ UNCHANGED ioSession
        ELSE IF validated = <<>>
          THEN /\ imported' = ImportResult("empty", <<>>)
               /\ UNCHANGED ioSession
        ELSE IF hasMeaningfulConversation(ioSession) /\ ~shouldProceed
          THEN /\ imported' = ImportResult("cancelled", <<>>)
               /\ UNCHANGED ioSession
        ELSE /\ imported' = ImportResult("ok", validated)
             /\ ioSession' = Session(validated, importedTitle)
  /\ file' = NoFile
  /\ UNCHANGED <<fileOrigin, exportedFrom>>
  /\ UNCHANGED <<windowVars, genVars, chatVars, authVars, storeVars>>

\* the application is open on a session, no file chosen
IoInit ==
  /\ ioSession \in ExportSessions
  /\ file = NoFile
  /\ fileOrigin = "none"
  /\ exportedFrom = <<>>
  /\ imported = ImportResult("none", <<>>)

\* import and export while the other models run
IoQuiet ==
  /\ ioSession = Session(<<Greeting>>, "t")
  /\ file = NoFile
  /\ fileOrigin = "none"
  /\ exportedFrom = <<>>
  /\ imported = ImportResult("none", <<>>)

IoNext ==
  \/ handleExportChat
  \/ \E data \in ForeignFiles : ChooseForeignFile(data)
  \/ \E shouldProceed \in BOOLEAN : handleImportChat(shouldProceed)

\* ================================== session store: App and useChatHistory
\* the largest value Date.now() returns to createNewSession
MaxClock == 3
\* most user events and ChatWindow callbacks App handles
MaxStoreEvents == 4

\* useState<string | null>(null)
NoId == 0

\* ChatSession of types.ts; `session_${Date.now()}` and createdAt are one number
ChatSession(id, title, msgs) ==
  [id |-> id, title |-> title, messages |-> msgs, createdAt |-> id]

\* the ids of a list of sessions
Ids(list) == { list[i].id : i \in DOMAIN list }

\* sessions.find(s => s.id === sessionId), for an id in the list
Find(list, sessionId) == list[CHOOSE i \in DOMAIN list : list[i].id = sessionId]

RECURSIVE InsertByAge(_, _)
\* session placed into a newest-first list, before the sessions that are not newer
InsertByAge(session, list) ==
  IF list = <<>> THEN << session >>
  ELSE IF Head(list).createdAt > session.createdAt
       THEN << Head(list) >> \o InsertByAge(session, Tail(list))
       ELSE << session >> \o list

RECURSIVE SortNewestFirst(_)
\* updatedSessions.sort((a, b) => b.createdAt - a.createdAt), a stable sort
SortNewestFirst(list) ==
  IF list = <<>> THEN <<>>
  ELSE InsertByAge(Head(list), SortNewestFirst(Tail(list)))

\* saveSessions of a whole list: sorted, set as state, written to localStorage
saveSessionsList(updatedSessions) ==
  /\ sessions' = SortNewestFirst(updatedSessions)
  /\ storedSessions' = SortNewestFirst(updatedSessions)

\* the list createNewSession saves; closure is the sessions the callback closed over
createNewSession(closure, id) ==
  << ChatSession(id, "New Chat", << Greeting >>) >> \o closure

\* the list deleteSession saves
deleteSession(closure, sessionId) ==
  SelectSeq(closure, LAMBDA s : s.id # sessionId)

\* the list renameSession saves
renameSession(closure, sessionId, newTitle) ==
  [i \in DOMAIN closure |->
     IF closure[i].id = sessionId THEN [closure[i] EXCEPT !.title = newTitle]
     ELSE closure[i]]

\* the list updateSessionMessages saves
updateSessionMessages(closure, sessionId, msgs) ==
  [i \in DOMAIN closure |->
     IF closure[i].id = sessionId THEN [closure[i] EXCEPT !.messages = msgs]
     ELSE closure[i]]

\* newTitle.trim() of the titles the user types
TrimTitle(newTitle) == IF newTitle = " " THEN "" ELSE newTitle

\* the titles typed into the rename box
RenameInputs == { "r", " " }

\* the message lists ChatWindow hands to onMessagesUpdate
UpdateLists ==
  { << Greeting, UIMessage(Role.USER, <<"a">>, <<>>) >>,
    << Greeting, UIMessage(Role.USER, <<"a">>, <<>>),
       UIMessage(Role.ASSISTANT, <<"b">>, <<>>) >> }

\* what localStorage holds when the application is opened
InitialStores ==
  { <<>>,
    << ChatSession(1, "New Chat", << Greeting >>) >>,
    << ChatSession(2, "New Chat", << Greeting >>),
       ChatSession(1, "t", << Greeting, UIMessage(Role.USER, <<"a">>, <<>>),
                              UIMessage(Role.ASSISTANT, <<"b">>, <<>>) >>) >> }

\* App has rendered with the current state and run its effect: the handlers
\* a user event reaches are those of the current state
Rendered ==
  /\ appRendered = [sessions |-> sessions, activeSessionId |-> activeSessionId]
  /\ ~effectPending

\* the activeSession of the last render exists
HasActiveSession == appRendered.activeSessionId \in Ids(appRendered.sessions)

\* the activeSession of the last render
activeSession == Find(appRendered.sessions, appRendered.activeSessionId)

\* App renders: its callbacks close over the current sessions and activeSessionId
AppRender ==
  /\ appRendered # [sessions |-> sessions, activeSessionId |-> activeSessionId]
  /\ appRendered' = [sessions |-> sessions, activeSessionId |-> activeSessionId]
  /\ effectPending' = TRUE
  /\ storeOp' = "render"
  /\ UNCHANGED <<sessions, storedSessions, activeSessionId, storeClock, storeEvents,
                 deletedIds, titleJobs, appBuild>>
  /\ UNCHANGED <<windowVars, genVars, chatVars, authVars, ioVars>>

\* the effect on [sessions, activeSessionId]: select the first session when
\* the active one is missing, create one when there is none at all
SessionEffect ==
  /\ effectPending
  /\ effectPending' = FALSE
  /\ storeOp' = "effect"
  /\ IF Len(appRendered.sessions) > 0
     THEN /\ activeSessionId' =
               IF appRendered.activeSessionId = NoId \/ ~HasActiveSession
               THEN appRendered.sessions[1].id
               ELSE activeSessionId
          /\ UNCHANGED <<sessions, storedSessions, storeClock>>
     ELSE IF appRendered.activeSessionId = NoId
          THEN /\ storeClock < MaxClock
               /\ storeClock' = storeClock + 1
               /\ saveSessionsList(createNewSession(appRendered.sessions, storeClock + 1))
               /\ activeSessionId' = storeClock + 1
          ELSE UNCHANGED <<sessions, storedSessions, storeClock, activeSessionId>>
  /\ UNCHANGED <<appRendered, storeEvents, deletedIds, titleJobs, appBuild>>
  /\ UNCHANGED <<windowVars, genVars, chatVars, authVars, ioVars>>

handleNewChat ==
  /\ Rendered
  /\ storeEvents < MaxStoreEvents
  /\ storeClock < MaxClock
  /\ storeEvents' = storeEvents + 1
  /\ storeClock' = storeClock + 1
  /\ saveSessionsList(createNewSession(appRendered.sessions, storeClock + 1))
  /\ activeSessionId' = storeClock + 1
  /\ storeOp' = "new"
  /\ UNCHANGED <<appRendered, effectPending, deletedIds, titleJobs, appBuild>>
  /\ UNCHANGED <<windowVars, genVars, chatVars, authVars, ioVars>>

\* the user clicks delete on a session of the sidebar and answers the
\* confirm dialog; deleteSession and createNewSession are the callbacks of
\* one render, so both read that render's sessions
handleDeleteChat(sessionId, confirmed) ==
  /\ Rendered
  /\ storeEvents < MaxStoreEvents
  /\ sessionId \in Ids(appRendered.sessions)
  /\ storeEvents' = storeEvents + 1
  /\ storeOp' = "delete"
  /\ IF ~confirmed
     THEN UNCHANGED <<sessions, storedSessions, activeSessionId, storeClock, deletedIds>>
     ELSE LET sessionsBeforeDelete == appRendered.sessions
              remainingSessions == deleteSession(sessionsBeforeDelete, sessionId)
          IN /\ deletedIds' = deletedIds \cup { sessionId }
             /\ IF appRendered.activeSessionId # sessionId
                THEN /\ saveSessionsList(deleteSession(appRendered.sessions, sessionId))
                     /\ UNCHANGED <<activeSessionId, storeClock>>
                ELSE IF Len(remainingSessions) > 0
                     THEN /\ saveSessionsList(deleteSession(appRendered.sessions, sessionId))
                          /\ activeSessionId' = remainingSessions[1].id
                          /\ UNCHANGED storeClock
                     ELSE /\ storeClock < MaxClock
                          /\ storeClock' = storeClock + 1
                          /\ saveSessionsList(createNewSession(appRendered.sessions,
                                                               storeClock + 1))
                          /\ activeSessionId' = storeClock + 1
  /\ UNCHANGED <<appRendered, effectPending, titleJobs, appBuild>>
  /\ UNCHANGED <<windowVars, genVars, chatVars, authVars, ioVars>>

handleRenameChat(sessionId, newTitle) ==
  /\ Rendered
  /\ storeEvents < MaxStoreEvents
  /\ sessionId \in Ids(appRendered.sessions)
  /\ storeEvents' = storeEvents + 1
  /\ storeOp' = "rename"
  /\ LET trimmedTitle == TrimTitle(newTitle)
     IN IF trimmedTitle # ""
        THEN saveSessionsList(renameSession(appRendered.sessions, sessionId, trimmedTitle))
        ELSE UNCHANGED <<sessions, storedSessions>>
  /\ UNCHANGED <<activeSessionId, appRendered, effectPending, storeClock, deletedIds,
                 titleJobs, appBuild>>
  /\ UNCHANGED <<windowVars, genVars, chatVars, authVars, ioVars>>

\* ChatWindow calls onMessagesUpdate; App.tsx then awaits generateTitle for
\* the first user message of a new chat and renames with the renameSession
\* this handleUpdateMessages closed over
handleUpdateMessages(newMessages) ==
  /\ Rendered
  /\ storeEvents < MaxStoreEvents
  /\ storeEvents' = storeEvents + 1
  /\ storeOp' = "update"
  /\ IF ~HasActiveSession
     THEN UNCHANGED <<sessions, storedSessions, titleJobs>>
     ELSE /\ saveSessionsList(updateSessionMessages(appRendered.sessions, activeSession.id,
                                                    newMessages))
          /\ titleJobs' =
               IF /\ appBuild = "App.tsx"
                  /\ activeSession.title = "New Chat"
                  /\ Len(newMessages) = 2
                  /\ newMessages[2].role = Role.USER
               THEN Append(titleJobs, [sessionId |-> activeSession.id,
                                       sessions |-> appRendered.sessions])
               ELSE titleJobs
  /\ UNCHANGED <<activeSessionId, appRendered, effectPending, storeClock, deletedIds, appBuild>>
  /\ UNCHANGED <<windowVars, genVars, chatVars, authVars, ioVars>>

\* ChatWindow.handleSend on the first user message of a new chat: it calls
\* generateTitle and will hand the title to the onTitleUpdate of this render
AutoTitleRequested ==
  /\ Rendered
  /\ storeEvents < MaxStoreEvents
  /\ appBuild = "part_006"
  /\ HasActiveSession
  /\ activeSession.title = "New Chat"
  /\ \A i \in DOMAIN activeSession.messages : activeSession.messages[i].role # Role.USER
  /\ storeEvents' = storeEvents + 1
  /\ storeOp' = "request"
  /\ titleJobs' = Append(titleJobs, [sessionId |-> activeSession.id,
                                     sessions |-> appRendered.sessions])
  /\ UNCHANGED <<sessions, storedSessions, activeSessionId, appRendered, effectPending,
                 storeClock, deletedIds, appBuild>>
  /\ UNCHANGED <<windowVars, genVars, chatVars, authVars, ioVars>>

\* generateTitle settles, with a title or with the fallback title: the
\* renameSession of the render that started it saves its sessions renamed
TitleGenerated ==
  /\ titleJobs # <<>>
  /\ saveSessionsList(renameSession(Head(titleJobs).sessions, Head(titleJobs).sessionId, "t"))
  /\ titleJobs' = Tail(titleJobs)
  /\ storeOp' = "title"
  /\ UNCHANGED <<activeSessionId, appRendered, effectPending, storeClock, storeEvents,
                 deletedIds, appBuild>>
  /\ UNCHANGED <<windowVars, genVars, chatVars, authVars, ioVars>>

\* the application mounts and has loaded the sessions of localStorage
StoreInit ==
  /\ storedSessions \in InitialStores
  /\ sessions = storedSessions
  /\ activeSessionId = NoId
  /\ appRendered = [sessions |-> sessions, activeSessionId |-> NoId]
  /\ effectPending = TRUE
  /\ storeClock = Len(storedSessions)
  /\ storeEvents = 0
  /\ storeOp = "none"
  /\ deletedIds = {}
  /\ titleJobs = <<>>
  /\ appBuild \in { "App.tsx", "part_006" }

\* the session store while the other models run
StoreQuiet ==
  /\ sessions = <<>>
  /\ storedSessions = <<>>
  /\ activeSessionId = NoId
  /\ appRendered = [sessions |-> <<>>, activeSessionId |-> NoId]
  /\ effectPending = FALSE
  /\ storeClock = 0
  /\ storeEvents = 0
  /\ storeOp = "none"
  /\ deletedIds = {}
  /\ titleJobs = <<>>
  /\ appBuild = "part_006"

RestQuiet == IoQuiet /\ StoreQuiet

StoreNext ==
  \/ AppRender
  \/ SessionEffect
  \/ handleNewChat
  \/ \E sessionId \in 1..MaxClock, confirmed \in BOOLEAN : handleDeleteChat(sessionId, confirmed)
  \/ \E sessionId \in 1..MaxClock, newTitle \in RenameInputs : handleRenameChat(sessionId, newTitle)
  \/ \E newMessages \in UpdateLists : handleUpdateMessages(newMessages)
  \/ AutoTitleRequested
  \/ TitleGenerated

\* ------------------------------------------------------------ initial states
\* no generation call: the generation variables while the window model runs
GenQuiet ==
  /\ build = "multi"
  /\ selectedModel = "gemini-2.5-flash"
  /\ currentModelConfig = NoModelConfig
  /\ searchProviderConfigs = DEFAULT_SEARCH_PROVIDERS
  /\ messages = <<>>
  /\ isStreaming = FALSE
  /\ pc = "idle"
  /\ call = NoCall
  /\ yielded = <<>>
  /\ produced = <<>>
  /\ chunks = 0
  /\ backendLog = <<>>
  /\ searchLog = <<>>
  /\ raised = NoError

WindowQuiet ==
  /\ wHistory = <<>>
  /\ wMaxTokens = 0
  /\ wResult = <<>>
  /\ wCalled = FALSE

\* the session store and the window's refs while the other models run
ChatQuiet ==
  /\ rendered = [isStreaming |-> FALSE, messages |-> <<>>, title |-> ""]
  /\ loops = <<>>
  /\ sends = 0
  /\ stored = [messages |-> <<>>, title |-> ""]
  /\ parentUpdate = "none"
  /\ pendingUpdateRef = <<>>
  /\ isStreamingUpdateRef = FALSE
  /\ updateTimeoutRef = <<>>
  /\ titlePending = <<>>

\* a chat window mounted with a session, a model selected, nothing sent yet
GenInit ==
  /\ build \in {"legacy", "multi"}
  /\ \/ /\ build = "legacy"
        /\ selectedModel \in LegacyModels
        /\ currentModelConfig = NoModelConfig
        /\ searchProviderConfigs = DEFAULT_SEARCH_PROVIDERS
     \/ /\ build = "multi"
        /\ selectedModel = "gemini-2.5-flash"
        /\ currentModelConfig \in ModelConfigs
        /\ searchProviderConfigs \in StoredSearchConfigs
  /\ messages \in Sessions
  /\ isStreaming = FALSE
  /\ pc = "idle"
  /\ call = NoCall
  /\ yielded = <<>>
  /\ produced = <<>>
  /\ chunks = 0
  /\ backendLog = <<>>
  /\ searchLog = <<>>
  /\ raised = NoError

InitGen == GenInit /\ WindowQuiet /\ ChatQuiet /\ AuthQuiet /\ RestQuiet

GenNext ==
  \/ \E prompt \in Prompts, useWebSearch \in BOOLEAN : handleSend(prompt, useWebSearch)
  \/ \E prompt \in Prompts, useWebSearch \in BOOLEAN, updaterRanFirst \in BOOLEAN :
       handleSendLegacy(prompt, useWebSearch, updaterRanFirst)
  \/ \E useWebSearch \in BOOLEAN : handleRetry(useWebSearch)
  \/ \E modelConfig \in ModelConfigs : setCurrentModel(modelConfig)
  \/ \E model \in LegacyModels : setSelectedModel(model)
  \/ \E results \in SearchResultLists : SearchReturns(results)
  \/ SearchFails
  \/ StreamCreated
  \/ StreamTimeout
  \/ \E chunk \in GeminiChunks \cup OpenAIChunks : StreamChunk(chunk)
  \/ StreamEnds
  \/ \E error \in BackendErrors : StreamFails(error)
  \/ \E text \in TextInputs, meta \in CompletionMetas : CompletionReturns(text, meta)
  \/ \E error \in BackendErrors : CompletionFails(error)

SpecGen == InitGen /\ [][GenNext]_vars

\* ============================================================ window model
WindowInit ==
  /\ wHistory \in WindowHistories
  /\ wMaxTokens \in 0..MaxBudget
  /\ wResult = <<>>
  /\ wCalled = FALSE

InitWindow == WindowInit /\ GenQuiet /\ ChatQuiet /\ AuthQuiet /\ RestQuiet

\* a caller invokes manageContextWindow(history, maxTokens)
CallManageContextWindow ==
  /\ ~wCalled
  /\ wResult' = manageContextWindow(wHistory, wMaxTokens)
  /\ wCalled' = TRUE
  /\ UNCHANGED <<wHistory, wMaxTokens>>
  /\ UNCHANGED genVars
  /\ UNCHANGED chatVars
  /\ UNCHANGED authVars
  /\ UNCHANGED restVars

WindowNext == CallManageContextWindow

SpecWindow == InitWindow /\ [][WindowNext]_vars

\* the auth server alone
InitAuth == AuthInit /\ WindowQuiet /\ GenQuiet /\ ChatQuiet /\ RestQuiet

SpecAuth == InitAuth /\ [][AuthNext]_vars

\* import and export alone
InitIo == IoInit /\ WindowQuiet /\ GenQuiet /\ ChatQuiet /\ AuthQuiet /\ StoreQuiet

SpecIo == InitIo /\ [][IoNext]_vars

\* the session store alone
InitStore == StoreInit /\ WindowQuiet /\ GenQuiet /\ ChatQuiet /\ AuthQuiet /\ IoQuiet

SpecStore == InitStore /\ [][StoreNext]_vars

\* ================================== chat window and session store model
\* the most submit and retry events the user delivers
MaxSends == 2

\* the variables of the generation model that the chat window model leaves alone
callVars == <<build, selectedModel, currentModelConfig, searchProviderConfigs, pc, call,
              yielded, produced, backendLog, searchLog, raised>>

\* saveSessions after sessions.map(...): the store is replaced, App renders
\* again, handleUpdateMessages is a new function, and sessionMessages is a
\* new array when the messages were replaced
saveSessions(session, newMessages) ==
  /\ stored' = session
  /\ parentUpdate' = IF newMessages \/ parentUpdate = "messages" THEN "messages"
                     ELSE "callbacks"

\* ChatWindow.handleSend as far as the window's state goes: the guard reads
\* the isStreaming of the render that created the handler
handleSendEvent(prompt) ==
  /\ sends < MaxSends
  /\ ~rendered.isStreaming
  /\ LET userMessage == UIMessage(Role.USER, prompt, <<>>)
         newMessages == messages \o << userMessage, UIMessage(Role.ASSISTANT, <<>>, <<>>) >>
         firstUserMessage ==
           /\ rendered.title = "New Chat"
           /\ \A i \in DOMAIN rendered.messages : rendered.messages[i].role # Role.USER
     IN /\ messages' = newMessages
        /\ pendingUpdateRef' = << newMessages >>
        /\ titlePending' = IF firstUserMessage THEN << stored >> ELSE titlePending
  /\ isStreamingUpdateRef' = FALSE
  /\ isStreaming' = TRUE
  /\ loops' = Append(loops, "send")
  /\ sends' = sends + 1
  /\ UNCHANGED <<rendered, stored, parentUpdate, updateTimeoutRef, chunks>>
  /\ UNCHANGED callVars
  /\ UNCHANGED windowVars
  /\ UNCHANGED authVars
  /\ UNCHANGED restVars

\* ChatWindow.handleRetry as far as the window's state goes: guard and
\* messages are those of the render that created the handler
handleRetryEvent ==
  /\ sends < MaxSends
  /\ ~rendered.isStreaming
  /\ Len(rendered.messages) >= 2
  /\ rendered.messages[Len(rendered.messages)].role = Role.ASSISTANT
  /\ rendered.messages[Len(rendered.messages) - 1].role = Role.USER
  /\ messages' = SubSeq(rendered.messages, 1, Len(rendered.messages) - 1)
                 \o << UIMessage(Role.ASSISTANT, <<>>, <<>>) >>
  /\ isStreaming' = TRUE
  /\ loops' = Append(loops, "retry")
  /\ sends' = sends + 1
  /\ UNCHANGED <<rendered, stored, parentUpdate, pendingUpdateRef, isStreamingUpdateRef,
                 updateTimeoutRef, titlePending, chunks>>
  /\ UNCHANGED callVars
  /\ UNCHANGED windowVars
  /\ UNCHANGED authVars
  /\ UNCHANGED restVars

\* React renders ChatWindow again after its state changed: the handlers are
\* created again over the current state
Render ==
  /\ rendered # [rendered EXCEPT !.isStreaming = isStreaming, !.messages = messages]
  /\ rendered' = [rendered EXCEPT !.isStreaming = isStreaming, !.messages = messages]
  /\ UNCHANGED <<loops, sends, stored, parentUpdate, pendingUpdateRef, isStreamingUpdateRef,
                 updateTimeoutRef, titlePending>>
  /\ UNCHANGED <<messages, isStreaming, chunks>>
  /\ UNCHANGED callVars
  /\ UNCHANGED windowVars
  /\ UNCHANGED authVars
  /\ UNCHANGED restVars

\* one of the running loops receives a text fragment: the setMessages updater
ChunkMerged(text) ==
  /\ loops # <<>>
  /\ chunks < MaxChunks
  /\ messages' = MergeFragmentMulti(messages, TextFragment(text))
  /\ pendingUpdateRef' = << messages' >>
  /\ isStreamingUpdateRef' = TRUE
  /\ chunks' = chunks + 1
  /\ UNCHANGED <<rendered, loops, sends, stored, parentUpdate, updateTimeoutRef,
                 titlePending, isStreaming>>
  /\ UNCHANGED callVars
  /\ UNCHANGED windowVars
  /\ UNCHANGED authVars
  /\ UNCHANGED restVars

\* the sequence s without its i-th element
RemoveAt(s, i) == SubSeq(s, 1, i - 1) \o SubSeq(s, i + 1, Len(s))

\* the stream of loop i ends: the lines after the loop, then finally
CallFinishes(i) ==
  /\ i \in DOMAIN loops
  /\ isStreamingUpdateRef' = FALSE
  /\ isStreaming' = FALSE
  /\ loops' = RemoveAt(loops, i)
  /\ UNCHANGED <<rendered, sends, stored, parentUpdate, pendingUpdateRef, updateTimeoutRef,
                 titlePending, messages, chunks>>
  /\ UNCHANGED callVars
  /\ UNCHANGED windowVars
  /\ UNCHANGED authVars
  /\ UNCHANGED restVars

\* the generator of loop i throws: the catch block, then finally
CallFails(i, error) ==
  /\ i \in DOMAIN loops
  /\ messages' = IF loops[i] = "retry" THEN RenderRetryError(messages, error)
                 ELSE RenderError("multi", messages, error)
  /\ pendingUpdateRef' = << messages' >>
  /\ isStreamingUpdateRef' = FALSE
  /\ isStreaming' = FALSE
  /\ loops' = RemoveAt(loops, i)
  /\ UNCHANGED <<rendered, sends, stored, parentUpdate, updateTimeoutRef, titlePending,
                 chunks>>
  /\ UNCHANGED callVars
  /\ UNCHANGED windowVars
  /\ UNCHANGED authVars
  /\ UNCHANGED restVars

\* a running loop comes to its end, one way or the other
CallEnds ==
  \E i \in DOMAIN loops : CallFinishes(i) \/ \E error \in BackendErrors : CallFails(i, error)

\* App renders with the new sessions and ChatWindow with the new props; its
\* effects run: [sessionMessages] copies the prop into the state, and
\* [onMessagesUpdate] hands the pending update to the parent, debounced
\* while streaming
AppCommit ==
  /\ parentUpdate # "none"
  /\ rendered' = [isStreaming |-> isStreaming, messages |-> messages, title |-> stored.title]
  /\ messages' = IF parentUpdate = "messages" THEN stored.messages ELSE messages
  /\ IF pendingUpdateRef = <<>>
     THEN UNCHANGED <<stored, updateTimeoutRef>> /\ parentUpdate' = "none"
     ELSE LET messagesToUpdate == pendingUpdateRef[1]
          IN IF isStreamingUpdateRef
             THEN /\ updateTimeoutRef' = << Session(messagesToUpdate, stored.title) >>
                  /\ parentUpdate' = "none"
                  /\ UNCHANGED stored
             ELSE /\ updateTimeoutRef' = <<>>
                  /\ stored' = Session(messagesToUpdate, stored.title)
                  /\ parentUpdate' = "messages"
  /\ pendingUpdateRef' = <<>>
  /\ UNCHANGED <<loops, sends, isStreamingUpdateRef, titlePending, isStreaming, chunks>>
  /\ UNCHANGED callVars
  /\ UNCHANGED windowVars
  /\ UNCHANGED authVars
  /\ UNCHANGED restVars

\* the 150 ms timer fires: onMessagesUpdate(messagesToUpdate) of the render
\* that set it
TimerFires ==
  /\ updateTimeoutRef # <<>>
  /\ saveSessions(updateTimeoutRef[1], TRUE)
  /\ updateTimeoutRef' = <<>>
  /\ UNCHANGED <<rendered, loops, sends, pendingUpdateRef, isStreamingUpdateRef, titlePending>>
  /\ UNCHANGED <<messages, isStreaming, chunks>>
  /\ UNCHANGED callVars
  /\ UNCHANGED windowVars
  /\ UNCHANGED authVars
  /\ UNCHANGED restVars

\* generateTitle settles: onTitleUpdate(title) renames the session in the
\* sessions that handleSend's render had
TitleArrives ==
  /\ titlePending # <<>>
  /\ saveSessions(Session(titlePending[1].messages, "titled"),
                  titlePending[1].messages # stored.messages)
  /\ titlePending' = <<>>
  /\ UNCHANGED <<rendered, loops, sends, pendingUpdateRef, isStreamingUpdateRef,
                 updateTimeoutRef>>
  /\ UNCHANGED <<messages, isStreaming, chunks>>
  /\ UNCHANGED callVars
  /\ UNCHANGED windowVars
  /\ UNCHANGED authVars
  /\ UNCHANGED restVars

\* ChatWindow mounted with a stored session: a new chat, or a titled one
ChatInit ==
  /\ messages \in Sessions
  /\ stored = Session(messages, IF Len(messages) = 1 THEN "New Chat" ELSE "titled")
  /\ rendered = [isStreaming |-> FALSE, messages |-> messages, title |-> stored.title]
  /\ loops = <<>>
  /\ sends = 0
  /\ parentUpdate = "none"
  /\ pendingUpdateRef = <<>>
  /\ isStreamingUpdateRef = FALSE
  /\ updateTimeoutRef = <<>>
  /\ titlePending = <<>>
  /\ isStreaming = FALSE
  /\ chunks = 0
  /\ build = "multi"
  /\ selectedModel = "gemini-2.5-flash"
  /\ currentModelConfig \in { c \in ModelConfigs : c.provider = AIProvider.GEMINI }
  /\ searchProviderConfigs = DEFAULT_SEARCH_PROVIDERS
  /\ pc = "idle"
  /\ call = NoCall
  /\ yielded = <<>>
  /\ produced = <<>>
  /\ backendLog = <<>>
  /\ searchLog = <<>>
  /\ raised = NoError

InitChat == ChatInit /\ WindowQuiet /\ AuthQuiet /\ RestQuiet

ChatNext ==
  \/ \E prompt \in Prompts : handleSendEvent(prompt)
  \/ handleRetryEvent
  \/ Render
  \/ \E text \in {<<"a">>, <<"b">>} : ChunkMerged(text)
  \/ CallEnds
  \/ AppCommit
  \/ TimerFires
  \/ TitleArrives

\* React renders and runs effects, timers fire, promises settle and streams
\* end; only the user's events may stay away
SpecChat ==
  /\ InitChat
  /\ [][ChatNext]_vars
  /\ WF_vars(Render)
  /\ WF_vars(CallEnds)
  /\ WF_vars(AppCommit)
  /\ WF_vars(TimerFires)
  /\ WF_vars(TitleArrives)

\* -------------------------------------------------------- claims: window
RECURSIVE SumTokens(_)
SumTokens(ms) == IF ms = <<>> THEN 0 ELSE estimateTokens(Head(ms)) + SumTokens(Tail(ms))

\* s is the suffix of h that starts at position Len(h) - Len(s) + 1
IsSuffix(s, h) ==
  /\ Len(s) <= Len(h)
  /\ s = SubSeq(h, Len(h) - Len(s) + 1, Len(h))

\* C1: for every history H and budget B, manageContextWindow(H, B) is a
\* contiguous suffix of H in chronological order, non-empty when H is
\* non-empty.
C1_WindowIsSuffix ==
  wCalled => /\ IsSuffix(wResult, wHistory)
             /\ (Len(wHistory) > 0 => Len(wResult) > 0)

\* a history of three messages of which the window keeps two
C1_Witness ==
  /\ wCalled
  /\ Len(wHistory) = 3
  /\ Len(wResult) = 2
  /\ wResult[1] # wResult[2]

\* C2: the estimates of the returned messages sum to at most B, unless the
\* result is exactly one message.
C2_WindowWithinBudget ==
  wCalled => \/ SumTokens(wResult) <= wMaxTokens
             \/ Len(wResult) = 1

\* both cases: a two-message window filling the budget exactly, with an
\* older message cut off
C2_Witness ==
  /\ wCalled
  /\ Len(wResult) = 2
  /\ Len(wHistory) = 3
  /\ SumTokens(wResult) = wMaxTokens
  /\ wMaxTokens > 0

\* ---------------------------------------------------- claims: generation
\* the call has ended: the generator returned, or threw into handleSend
Ended == pc \in {"done", "raised"}

\* positions of the non-streaming fallback requests in the log: every
\* completion request that is not the call's first request
FallbackCalls == { i \in DOMAIN backendLog : i > 1 /\ backendLog[i].op = "complete" }

RECURSIVE ConcatText(_)
\* the text fragments of a fragment sequence, concatenated in order
ConcatText(fragments) ==
  IF fragments = <<>> THEN <<>>
  ELSE (IF Head(fragments).kind = "text" THEN Head(fragments).text ELSE <<>>)
       \o ConcatText(Tail(fragments))

\* the uris of a list of sources
Uris(sources) == { sources[i].uri : i \in DOMAIN sources }

\* no two entries of a list of sources share a uri
DistinctUris(sources) ==
  \A i, j \in DOMAIN sources : sources[i].uri = sources[j].uri => i = j

\* C3: in one generation call the non-streaming fallback is invoked at most
\* once, exactly once when the streaming attempt failed and no non-streaming
\* call failed, and it is the last backend call of the generation call.
C3_FallbackExactlyOnce ==
  /\ Cardinality(FallbackCalls) <= 1
  /\ \A i \in FallbackCalls : i = Len(backendLog)
  /\ (Ended /\ call.error.thrown /\ ~call.fallbackError.thrown)
       => Cardinality(FallbackCalls) = 1

\* C4: whenever the streaming attempt raised an error, for either provider
\* variant, the call has reissued the identical request (same model, same
\* messages) as a non-streaming completion, and if that fallback did not
\* fail the generation call ends without raising.
C4_AnyStreamErrorFallsBack ==
  call.error.thrown =>
    /\ Len(backendLog) >= 2
    /\ backendLog[2] = [backendLog[1] EXCEPT !.op = "complete"]
    /\ (Ended /\ ~call.fallbackError.thrown) => pc = "done"

C6_TextOrderPreserved ==
  (Len(backendLog) = 1 /\ backendLog[1].op = "stream" /\ ~call.error.thrown)
    => ConcatText(yielded) = produced

\* C7: no message of the chat window lists two sources with the same uri.
C7_SourcesUniquePerMessage ==
  \A i \in DOMAIN messages : DistinctUris(messages[i].sources)

\* C8: no source uri is yielded in two different fragments of one call.
C8_NoUriYieldedTwice ==
  \A i, j \in DOMAIN yielded :
    i < j => Uris(yielded[i].sources) \cap Uris(yielded[j].sources) = {}

\* C9: a generation call on the native-grounded (Gemini) variant never calls
\* performWebSearch, whatever useWebSearch and the stored search settings are.
C9_NoSearchOnNativeGrounding ==
  call.provider = AIProvider.GEMINI => searchLog = <<>>

\* a finished Gemini call with web search on and Tavily the active provider
C9_Witness ==
  /\ pc = "done"
  /\ call.fn = "generateResponse"
  /\ call.provider = AIProvider.GEMINI
  /\ call.useWebSearch
  /\ call.activeSearch = SearchProvider.TAVILY
  /\ call.tools
  /\ \E i \in DOMAIN yielded : yielded[i].kind = "sources"

\* the call runs generateOpenAIResponse with web search requested
OpenAIWithWebSearch ==
  /\ call.fn = "generateResponse"
  /\ call.provider # AIProvider.GEMINI
  /\ call.useWebSearch

SearchGaveNothing ==
  /\ OpenAIWithWebSearch
  /\ searchLog # <<>>
  /\ pc # "search"
  /\ call.searchResults = <<>>

\* C11: when the external search failed or returned no results, the backend
\* is still invoked, every request carries exactly the messages the generator
\* was given (no search context message inserted), and nothing is raised on
\* account of the search.
C11_SearchFailureDegrades ==
  SearchGaveNothing =>
    /\ backendLog # <<>>
    /\ \A i \in DOMAIN backendLog :
         /\ backendLog[i].messages = call.messages
         /\ \A k \in DOMAIN backendLog[i].messages :
              backendLog[i].messages[k].role = Role.SYSTEM
                => backendLog[i].messages[k].content = DateContext
    /\ ~raised.thrown

\* an HTTP search that came back without results, and the call then ran to
\* its end on the backend's answer
C11_Witness ==
  /\ SearchGaveNothing
  /\ searchLog[1].http
  /\ pc = "done"
  /\ yielded # <<>>
  /\ ~raised.thrown

\* the session's messages before the send that started the call: the window
\* holds them followed by the user message and the assistant placeholder
HistoryBeforeSend == SubSeq(messages, 1, Len(messages) - 2)

\* how many user messages of a list carry the given text
UserTurnsWith(msgs, text) ==
  Cardinality({ i \in DOMAIN msgs : msgs[i].role = "user" /\ msgs[i].content = text })

\* C12: every request of a generation call ends with the new user text T as
\* its final user message, and T appears in the request exactly once more
\* than in the history H the send started from.
C12_PromptExactlyOnce ==
  pc # "idle" =>
    \A i \in DOMAIN backendLog :
      LET req == backendLog[i].messages
      IN /\ req # <<>>
         /\ req[Len(req)] = Msg("user", call.prompt)
         /\ UserTurnsWith(req, call.prompt)
              = UserTurnsWith(HistoryBeforeSend, call.prompt) + 1

\* a generation call is running: started and neither returned nor thrown
InFlight == pc \notin {"idle", "done", "raised"}

IsPrefix(p, t) == Len(p) <= Len(t) /\ SubSeq(t, 1, Len(p)) = p

\* C13: while a generation call is in flight no step, a failure included,
\* takes shown text away: the assistant message's content before the step is
\* a prefix of its content after the step.
C13_PartialTextKept ==
  [][InFlight =>
       IsPrefix(messages[Len(messages)].content, messages'[Len(messages')].content)]_vars

\* the error is a rejection by the backend: model not found, permission
\* denied, quota exceeded or rate limit exceeded
IsBackendRejection(error) ==
  /\ error.thrown
  /\ \/ includes(error, "model") /\ includes(error, "not found")
     \/ includes(error, "permission")
     \/ includes(error, "quota")
     \/ includes(error, "rate")

\* C14: once the streaming attempt failed with a backend rejection the call
\* has ended by raising, and no fallback request was issued.
C14_RejectionNeverRetried ==
  IsBackendRejection(call.error) =>
    /\ pc = "raised"
    /\ raised.thrown
    /\ FallbackCalls = {}

\* C15: every backend request of a generation call names the model id of the
\* model binding that was current when the call started, also when the
\* selection was changed while the call was in flight.
C15_CopyOnStart ==
  /\ call.fn = "generateResponse" =>
       \A i \in DOMAIN backendLog : backendLog[i].model = ResolveModelId(call.config)
  /\ call.fn = "generateResponseStream" =>
       \A i \in DOMAIN backendLog : backendLog[i].model = backendLog[1].model

\* a message the generator put into the request itself: a system message,
\* or for Gemini a user message marked [SYSTEM CONTEXT]
IsSynthetic(m) ==
  \/ m.role = Role.SYSTEM
  \/ m.content # <<>> /\ Head(m.content) = "[SYSTEM CONTEXT] "

RECURSIVE WithoutPrompt(_, _)
\* a message list without the user messages at its end that carry the prompt
WithoutPrompt(msgs, prompt) ==
  IF msgs # <<>> /\ msgs[Len(msgs)] = Msg("user", prompt)
  THEN WithoutPrompt(SubSeq(msgs, 1, Len(msgs) - 1), prompt)
  ELSE msgs

\* the history portion of a request: its messages without the synthetic
\* ones and without the prompt
RequestHistory(req) ==
  LET NotSynthetic(m) == ~IsSynthetic(m)
  IN WithoutPrompt(SelectSeq(req.messages, NotSynthetic), call.prompt)

\* C17: the history portion of every request sent to the backend fits the
\* token ceiling of the request's model, unless it is a single message.
C17_WindowAppliedBeforeBackend ==
  \A i \in DOMAIN backendLog :
    LET portion == RequestHistory(backendLog[i])
    IN SumTokens(portion) <= ModelMaxTokens(backendLog[i].model) \/ Len(portion) <= 1

\* C18: when a generation call has completed without raising, the trailing
\* assistant message's content is the concatenation, in yield order, of the
\* text fragments the call yielded.
C18_ContentIsConcatenation ==
  pc = "done" => messages[Len(messages)].content = ConcatText(yielded)

\* C16: at most one generation call is in flight in a chat window at any
\* time, whatever the order of submit, retry and render events.
C16_OneCallInFlight == Len(loops) <= 1

\* a call has run and none is running
CallsOver == sends > 0 /\ loops = <<>>

\* C19: once the generation call has finished, the stored session's messages
\* eventually equal the chat window's messages.
C19_EventuallyPersisted == CallsOver ~> (stored.messages = messages)

\* ------------------------------------------------------------ claims: auth
\* a verify-code request that carried an email and a code was answered in this step
VerifyAnswered(email) ==
  /\ handled' # handled
  /\ response'.route = "verify-code"
  /\ response'.email = email
  /\ response'.status # 400

C21_OnlyIssuedTokensValid ==
  (response.route = "verify-session" /\ response.status = 200)
    => response.token \in issuedTokens

\* ------------------------------------------------ claims: import and export
DocumentedRoleNames == {"user", "human", "assistant", "model", "ai"}

\* the roles and contents of a message list, without the sources
RolesAndContents(msgs) == [i \in 1..Len(msgs) |-> Msg(msgs[i].role, msgs[i].content)]

\* this step is a handleImportChat that imported the file
ImportedNow == file # NoFile /\ file' = NoFile /\ imported'.status = "ok"

\* what the import keeps of a file whose roles are mapped as documented
DocumentedImport(msgs) ==
  SelectSeq([i \in 1..Len(msgs) |->
               Msg(DocumentedRole(msgs[i].role),
                   TextOrElse(msgs[i].content, TextOrElse(msgs[i].text, <<>>)))],
            LAMBDA m : Trim(m.content) # <<>>)

\* C22: on import every message's role is mapped as documented, whatever its position in
\* the file: "user" and "human" become the user role, "assistant", "model" and "ai" the
\* assistant role.
C22_RolesMappedAsDocumented ==
  [][(ImportedNow /\ \A i \in 1..Len(file.messages) :
                       file.messages[i].role \in DocumentedRoleNames)
       => RolesAndContents(imported'.messages) = DocumentedImport(file.messages)]_vars

\* the import of an exported file has run to its end
ExportImported == fileOrigin = "export" /\ imported.status \in {"ok", "invalid", "empty"}

\* C23 (as stated): export followed by import is a round trip on messages: the import
\* succeeds and yields the same length, order, roles and contents.
C23_RoundTrip ==
  ExportImported
    => /\ imported.status = "ok"
       /\ RolesAndContents(imported.messages) = RolesAndContents(exportedFrom)

\* C23 (amended): export followed by import keeps, in order and with their roles and
\* contents, exactly the messages whose content is not blank; it is refused only when no
\* message has content.
C23_RoundTripOnContent ==
  ExportImported
    => LET kept == SelectSeq(exportedFrom, LAMBDA m : Trim(m.content) # <<>>)
       IN /\ imported.status = IF kept = <<>> THEN "empty" ELSE "ok"
          /\ RolesAndContents(imported.messages) = RolesAndContents(kept)

\* an exported session that starts with an assistant message and holds a blank one was
\* imported
C23_Witness ==
  /\ fileOrigin = "export"
  /\ imported.status = "ok"
  /\ exportedFrom[1].role = Role.ASSISTANT
  /\ Len(imported.messages) >= 2
  /\ Len(imported.messages) < Len(exportedFrom)

\* ------------------------------------------------ claims: search insertion
\* the external search of this call returned results
SearchGaveResults == OpenAIWithWebSearch /\ call.searchResults # <<>>

\* C24: after a search that returned a non-empty result list, every message list sent to
\* the backend is the list the generator was given with exactly one system-role message,
\* the search context, inserted immediately before the final user message; the original
\* messages are all present, unchanged and in their order.
C24_OneMessageInserted ==
  SearchGaveResults =>
    \A i \in DOMAIN backendLog :
      LET sent == backendLog[i].messages
          n == Len(call.messages)
      IN /\ Len(sent) = n + 1
         /\ SubSeq(sent, 1, n - 1) = SubSeq(call.messages, 1, n - 1)
         /\ sent[n].role = Role.SYSTEM
         /\ sent[n].content = SearchContext(call.prompt, call.searchResults)
         /\ sent[n + 1] = call.messages[n]
         /\ sent[n + 1].role = Role.USER
         /\ Cardinality({ k \in DOMAIN sent :
                            /\ sent[k].content # <<>>
                            /\ Head(sent[k].content) = "SEARCH RESULTS FOR" }) = 1

\* a call on a session with earlier turns got search results and finished, its streaming
\* request and its fallback both sent
C24_Witness ==
  /\ SearchGaveResults
  /\ pc = "done"
  /\ Len(call.messages) > 3
  /\ Len(backendLog) = 2

\* ------------------------------------------------ claims: fallback output
\* this step is a non-streaming fallback that succeeded
FallbackSucceeded == pc = "fallback" /\ pc' = "done" /\ ~call'.fallbackError.thrown

\* the sources the fallback's response comes with: the search results of the call, or the
\* grounding citations of the response
FallbackSources ==
  IF call'.fn = "generateResponseStream" THEN GroundingFragments(call'.fallbackMeta)
  ELSE SearchSourcesFragments(call'.searchResults)

\* C25: when the non-streaming fallback succeeds, the call yields after the failure the
\* complete response text as one text fragment (none for an empty text), followed by the
\* response's sources, if there are any, as one sources fragment.
C25_FallbackYieldsTextThenSources ==
  [][FallbackSucceeded =>
       \E text \in TextInputs :
         yielded' = yielded \o (IF text # <<>> THEN << TextFragment(text) >> ELSE <<>>)
                            \o FallbackSources]_vars

\* ------------------------------------------------ claims: classification
\* the message generateResponseStream documents for each kind of rejection
RejectionMessage(error) ==
  IF includes(error, "model") /\ includes(error, "not found") THEN "Model is not available"
  ELSE IF includes(error, "permission") THEN "Access denied for model"
  ELSE IF includes(error, "rate limit") THEN "Rate limit exceeded for model"
  ELSE "API quota exceeded for model"

\* C26: a call of generateResponseStream that ended on a backend rejection raised the
\* message of the rejection's own kind: model unavailable for model not found, access
\* denied for permission, quota for quota and rate limit for rate limit.
C26_EachKindItsOwnMessage ==
  (call.fn = "generateResponseStream" /\ pc = "raised" /\ IsBackendRejection(call.error))
    => raised.name = RejectionMessage(call.error)

\* ------------------------------------------- claims: where the window stops
\* the message of the history immediately before the returned window
PrecedingMessage == wHistory[Len(wHistory) - Len(wResult)]

\* C27: whenever the returned window omits a message, the window's total
\* estimate plus the estimate of the message immediately preceding the window
\* exceeds maxTokens, and no message older than an omitted one is included
\* (the window is the unbroken run of the most recent messages).
C27_StopsAtFirstOverflow ==
  (wCalled /\ Len(wResult) < Len(wHistory))
    => /\ IsSuffix(wResult, wHistory)
       /\ Len(wResult) > 0
       /\ SumTokens(wResult) + estimateTokens(PrecedingMessage) > wMaxTokens

\* the window stopped at a message that did not fit although the one before
\* it would have fitted
C27_Witness ==
  /\ wCalled
  /\ Len(wHistory) = 3
  /\ Len(wResult) = 1
  /\ SumTokens(wResult) <= wMaxTokens
  /\ SumTokens(wResult) + estimateTokens(wHistory[2]) > wMaxTokens
  /\ SumTokens(wResult) + estimateTokens(wHistory[1]) <= wMaxTokens

\* ------------------------------------------------- claims: session store
\* C28: after handleDeleteChat deletes a session, that session id is absent
\* from the sessions state and from persisted storage in every later state,
\* also when the deleted session was the last one and a "New Chat" session
\* is created in the same handler.
C28_DeletedStaysDeleted ==
  \A id \in deletedIds : id \notin Ids(sessions) /\ id \notin Ids(storedSessions)

\* a rename is saved: handleRenameChat, or a generated title arriving
RenameStep ==
  \/ storeOp' = "rename" /\ storeEvents' # storeEvents
  \/ Len(titleJobs') < Len(titleJobs)

\* every session that is in the store before and after the step has the same messages
MessagesKept ==
  \A i \in DOMAIN sessions, j \in DOMAIN sessions' :
    sessions[i].id = sessions'[j].id => sessions[i].messages = sessions'[j].messages

\* C29: renaming a session changes only its title: in every interleaving of
\* renameSession (the auto-title that settles later included) with
\* updateSessionMessages, a rename step changes no session's messages and
\* reverts none to an earlier value.
C29_RenameKeepsMessages == [][RenameStep => MessagesKept]_vars

\* ------------------------------------------- claims: text after a fallback
\* C30: in a call whose streaming attempt yielded text, then failed, and whose
\* fallback succeeds, the concatenation of all text fragments the call has
\* yielded equals the fallback's complete response text: what was streamed
\* before the failure is not emitted a second time.
C30_NoTextTwice ==
  [][(FallbackSucceeded /\ ConcatText(yielded) # <<>>)
       => ConcatText(yielded') = call'.fallbackText]_vars

====
